---------------------------- MODULE Spec2Model ----------------------------
(***************************************************************************)
(* A model of the xilem_synth_widgets audio core:                          *)
(*   - the scope publish channel (triple buffer) between the audio         *)
(*     callback of examples/dsp.rs and ScopeSource::poll of                *)
(*     src/widgets/scope.rs                                   (SpecChan)   *)
(*   - the audio callback's parameter reads and frame loop    (SpecEngine) *)
(*   - the LFO drift update                                   (SpecLfo)    *)
(*   - Scope::find_trigger_point                              (SpecTrig)   *)
(* Every specification shares the one list of variables; a specification   *)
(* leaves the variables of the other parts at their initial values.        *)
(***************************************************************************)
EXTENDS Integers, Sequences, FiniteSets, TLC

VARIABLES
    \* ---- scope publish channel (triple_buffer shared state) ----
    buffers,        \* the three Vec<f32> of the triple buffer, indexed 0..2
    back_info,      \* [idx, dirty]: the atomic back-buffer index and dirty bit
    input_idx,      \* Input::input_idx, the producer's buffer
    output_idx,     \* Output::output_idx, the consumer's buffer
    \* ---- producer: the audio callback closure ----
    scope_accum,    \* the callback's accumulator Vec<f32>
    accum_cap,      \* scope_accum.capacity()
    buf_cap,        \* capacity() of each of the three buffers
    produced,       \* number of mono samples the engine has produced so far
    apc,            \* the callback's position: idle/clear/extend/publish/stopped
    \* ---- consumers: the clones of one ScopeSource ----
    mutex,          \* holder of ScopeSource.inner's Mutex (0: free)
    cpc,            \* each clone's position inside poll
    ccopy,          \* each clone's partially built samples.clone()
    result,         \* what each clone's last poll returned
    lockPub,        \* history: number of publishes done when the poll locked
    lockStop,       \* history: the stream was stopped when the poll locked
    stopPolls,      \* history: what the polls begun after the stop returned
    \* ---- history of the channel ----
    published,      \* the input buffer's contents at each publish call
    returns,        \* the snapshots polls returned, in order
    lastPoll,       \* the last completed poll
    \* ---- parameter store (SharedParams) and the UI thread ----
    params,         \* the atomics of SharedParams, by field
    stored,         \* history: every value each field has held
    nwrites,        \* number of stores the UI thread has made
    \* ---- the audio callback's locals and captured state ----
    epc,            \* position: idle / load / frame / publish
    ldx,            \* number of parameter loads done in this callback
    blk,            \* the callback's local parameter values
    frames,         \* data.len() / channels of this callback
    data,           \* the samples written to the device in this callback
    phase1, phase2, lfo_phase, lfo_rate, lfo_direction,
    blkStart,       \* history: locals and oscillator state when the loads ended
    nblocks,        \* number of callbacks started (saturating)
    \* ---- the Scope widget ----
    raw_buffer,         \* Scope.raw_buffer
    trigger_threshold,  \* Scope.trigger_threshold
    trigger_pos,        \* the index the last find_trigger_point returned
    display_width,      \* Scope.display_width
    display_points,     \* Scope.display_points
    generation,         \* Scope.generation
    source,             \* Scope.source: the id of the ScopeSource held, 0: None
    anim_requested,     \* an animation frame has been requested
    raw_from,           \* history: the source held when each sample of
                        \* raw_buffer was ingested
    last_ingest,        \* history: the locals of the last ingest_buffer
    ningests,           \* number of ingest_buffer calls
    nsamples,           \* number of samples handed to ingest_buffer so far
    view_state,         \* the Scope view's ViewState: the source id it tracks
    last_rebuild,       \* history: the last View::rebuild
    \* ---- ScopeSource values and their ids ----
    next_id,            \* SCOPE_SOURCE_NEXT_ID
    sources,            \* the ScopeSource values made so far, in order
    tnew,               \* each thread's position inside ScopeSource::new
    nnew,               \* number of ScopeSource::new calls begun
    \* ---- the DspHandle the application holds and DspEngine::start ----
    dsp,                \* the DspHandle: params, scope_source id, stream
    att,                \* the start call in progress on the UI thread
    nstarts,            \* number of start calls begun
    results,            \* history: what each start call returned
    live,               \* the cpal Streams that exist, by start call
    playing,            \* the Streams on which play() has succeeded
    cbCount,            \* history: audio callbacks run, by start call
    stopLog,            \* history: the handle before and after each stop
    \* ---- one AtomicF32 and the two boolean fields of SharedParams ----
    abits,              \* AtomicF32.0: the AtomicU32
    astored,            \* history: the f32 last stored
    aloaded,            \* what the last load returned, if none stored since
    bcell,              \* SharedParams.mute / lfo_enabled: the AtomicU32s
    bset,               \* history: the bool last set, by field
    bgot,               \* what the last muted() / lfo_enabled() returned
    \* ---- the PushButton widget ----
    pb_active,          \* PushButton.active
    pb_captured,        \* ctx.is_active(): the widget has the pointer capture
    pb_hovered,         \* ctx.is_hovered()
    pb_disabled,        \* ctx.is_disabled()
    pb_last,            \* history: the last pointer event and what it did
    pb_clicks,          \* number of actions the button has emitted
    \* ---- the Fader widget ----
    fd_value,           \* Fader.value: the normalized position, ONE is 1.0
    fd_min_db,          \* Fader.min_db
    fd_max_db,          \* Fader.max_db
    fd_default_db,      \* Fader.default_db
    fd_drag_start_y,    \* Fader.drag_start_y: <<>> is None, <<y>> is Some(y)
    fd_drag_start_value,\* Fader.drag_start_value
    fd_captured,        \* ctx.is_active(): the widget has the pointer capture
    fd_last,            \* history: the last pointer event and what it did
    \* ---- the Scope widget's animation frames ----
    fpc,                \* the widget's position inside on_anim_frame
    frame_polls,        \* history: polls made by the last animation frame
    ingested,           \* history: the publishes the widget has ingested
    \* ---- the push_button view over the widget ----
    pb_view,            \* `active` of the push_button view last built
    pb_pending,         \* the action the widget submitted, not yet handled
    \* ---- the ParamSelector widget and its view ----
    ps_selected,        \* ParamSelector.selected
    ps_labels,          \* ParamSelector.labels (count is their number)
    ps_view,            \* labels and selected of the param_selector view last built
    ps_last,            \* history: what was done to the widget last
    \* ---- the Knob widget and its view ----
    kn_value,           \* Knob.value
    kn_min,             \* Knob.min
    kn_max,             \* Knob.max
    kn_default,         \* Knob.default
    kn_step,            \* Knob.step
    kn_drag_start_y,    \* Knob.drag_start_y: <<>> for None, <<y>> for Some(y)
    kn_drag_start_value,\* Knob.drag_start_value
    kn_captured,        \* the widget has the pointer capture (ctx.is_active())
    kn_view,            \* min, max and value of the knob view last built
    kn_last,            \* history: the last operation and the action it submitted
    \* ---- the demo's state ----
    audio_started,      \* DemoState.audio_started
    selected_device,    \* DemoState.selected_device
    demo_last           \* history: the last callback and whether its start succeeded

chanVars == <<buffers, back_info, input_idx, output_idx, scope_accum, produced,
              apc, mutex, cpc, ccopy, result, lockPub, published, returns,
              lastPoll, lockStop, stopPolls, accum_cap, buf_cap>>

oscVars == <<phase1, phase2, lfo_phase, lfo_rate, lfo_direction>>
engVars == <<params, stored, nwrites, epc, ldx, blk, frames, data, oscVars,
             blkStart, nblocks>>

scopeVars == <<raw_buffer, trigger_threshold, trigger_pos>>

widgetVars == <<display_width, display_points, generation, source,
                anim_requested, raw_from, last_ingest, ningests, nsamples,
                view_state, last_rebuild>>

idVars == <<next_id, sources, tnew, nnew>>

handleVars == <<dsp, att, nstarts, results, live, playing, cbCount, stopLog>>

atomVars == <<abits, astored, aloaded, bcell, bset, bgot>>

buttonVars == <<pb_active, pb_captured, pb_hovered, pb_disabled, pb_last,
                pb_clicks>>

faderVars == <<fd_value, fd_min_db, fd_max_db, fd_default_db, fd_drag_start_y,
               fd_drag_start_value, fd_captured, fd_last>>

animVars == <<fpc, frame_polls, ingested>>

pbViewVars == <<pb_view, pb_pending>>

psVars == <<ps_selected, ps_labels, ps_view, ps_last>>

knobVars == <<kn_value, kn_min, kn_max, kn_default, kn_step, kn_drag_start_y,
              kn_drag_start_value, kn_captured, kn_view, kn_last>>

demoVars == <<audio_started, selected_device, demo_last>>

viewVars == <<pbViewVars, psVars, knobVars, demoVars>>

uiVars == <<atomVars, buttonVars, faderVars, animVars, viewVars>>

appVars == <<idVars, handleVars, uiVars>>

vars == <<chanVars, engVars, scopeVars, widgetVars, appVars>>

---------------------------------------------------------------------------
(* Bounds.  SCOPE_SAMPLES is 4096 in the source; the model scales it.      *)
SCOPE_SAMPLES == 2
MaxBlock == 3
MaxSamples == 6

Clones == {1, 2}
BlockSizes == 1..MaxBlock

NoneRes == [some |-> FALSE, samples |-> <<>>]
SomeRes(s) == [some |-> TRUE, samples |-> s]
NoPoll == [valid |-> FALSE, c |-> 0, res |-> NoneRes, lockPub |-> 0,
           retPub |-> 0, prevReturns |-> 0]

---------------------------------------------------------------------------
(* Floating-point values.  A value is NaN, +inf, -inf or a finite number;  *)
(* finite numbers are fixed-point, in units of 1/ONE.  The operators       *)
(* follow IEEE 754 on the special values (NaN is absorbing and unordered,  *)
(* inf - inf and 0 * inf are NaN) and round finite results toward zero.    *)
ONE == 8 * 8

Fin(v) == [k |-> "fin", v |-> v]
NaN == [k |-> "nan", v |-> 0]
PInf == [k |-> "inf", v |-> 1]
NInf == [k |-> "inf", v |-> -1]

IsNaN(a) == a.k = "nan"
IsInf(a) == a.k = "inf"
IsFin(a) == a.k = "fin"

Sgn(n) == IF n > 0 THEN 1 ELSE IF n < 0 THEN -1 ELSE 0
Abs(n) == IF n < 0 THEN -n ELSE n
\* integer division rounding toward zero
TDiv(n, d) == Sgn(n) * Sgn(d) * (Abs(n) \div Abs(d))

\* Each operator binds its operands once (x \in {a}) before it inspects
\* them, so that an operand expression is evaluated a single time.
FSign(a) == IF IsInf(a) THEN a.v ELSE Sgn(a.v)

FNeg(a) ==
    CHOOSE r \in {IF IsNaN(x) THEN NaN ELSE [x EXCEPT !.v = -x.v] : x \in {a}} : TRUE

FAdd(a, b) ==
    CHOOSE r \in
      {IF IsNaN(x) \/ IsNaN(y) THEN NaN
       ELSE IF IsInf(x) /\ IsInf(y) THEN (IF x.v = y.v THEN x ELSE NaN)
       ELSE IF IsInf(x) THEN x
       ELSE IF IsInf(y) THEN y
       ELSE Fin(x.v + y.v) : x \in {a}, y \in {b}} : TRUE

FSub(a, b) == FAdd(a, FNeg(b))

FMul(a, b) ==
    CHOOSE r \in
      {IF IsNaN(x) \/ IsNaN(y) THEN NaN
       ELSE IF IsInf(x) \/ IsInf(y)
            THEN (IF FSign(x) * FSign(y) = 0 THEN NaN
                  ELSE IF FSign(x) * FSign(y) > 0 THEN PInf ELSE NInf)
       ELSE Fin(TDiv(x.v * y.v, ONE)) : x \in {a}, y \in {b}} : TRUE

\* division by a finite non-zero number (sample_rate, 20.0)
FDiv(a, b) ==
    CHOOSE r \in
      {IF IsNaN(x) THEN NaN
       ELSE IF IsInf(x) THEN (IF FSign(x) * FSign(y) > 0 THEN PInf ELSE NInf)
       ELSE Fin(TDiv(x.v * ONE, y.v)) : x \in {a}, y \in {b}} : TRUE

\* a < b; false when either is NaN
FLt(a, b) ==
    \E x \in {a}, y \in {b} :
        /\ ~IsNaN(x)
        /\ ~IsNaN(y)
        /\ IF IsInf(x) /\ IsInf(y) THEN x.v < y.v
           ELSE IF IsInf(x) THEN x.v < 0
           ELSE IF IsInf(y) THEN y.v > 0
           ELSE x.v < y.v

FGt(a, b) == FLt(b, a)
\* a >= b; false when either is NaN
FGe(a, b) == \E x \in {a}, y \in {b} : ~IsNaN(x) /\ ~IsNaN(y) /\ ~FLt(x, y)

\* x.floor()
FFloor(a) ==
    CHOOSE r \in {IF IsFin(x) THEN Fin((x.v \div ONE) * ONE) ELSE x : x \in {a}} : TRUE
\* x.abs()
FAbs(a) ==
    CHOOSE r \in {IF IsNaN(x) THEN NaN ELSE [x EXCEPT !.v = Abs(x.v)] : x \in {a}} : TRUE

\* (phase * TAU).sin(): NaN for a phase that is not finite; for a finite
\* phase the sine of the nearest eighth of a cycle at or below it.
SinTable == <<0, 45, ONE, 45, 0, -45, -ONE, -45>>
SinTau(phase) ==
    CHOOSE r \in
      {IF IsFin(x) THEN Fin(SinTable[((x.v % ONE) * 8) \div ONE + 1]) ELSE NaN
       : x \in {phase}} : TRUE

\* 10.0_f64.powf(x): NaN for NaN, +inf for +inf, 0 for -inf; for a finite
\* x the power of ten of its integer part.
RECURSIVE IntPow10(_)
IntPow10(n) == IF n <= 0 THEN 1 ELSE 10 * IntPow10(n - 1)
Powf10(a) ==
    CHOOSE r \in
      {IF IsNaN(x) THEN NaN
       ELSE IF IsInf(x) THEN (IF x.v > 0 THEN PInf ELSE Fin(0))
       ELSE IF x.v \div ONE >= 0 THEN Fin(ONE * IntPow10(x.v \div ONE))
       ELSE Fin(ONE \div IntPow10(-(x.v \div ONE))) : x \in {a}} : TRUE

\* f32::clamp(-1.0, 1.0): NaN stays NaN
Clamp(a) ==
    CHOOSE r \in
      {IF IsNaN(x) THEN NaN
       ELSE IF FLt(x, Fin(-ONE)) THEN Fin(-ONE)
       ELSE IF FGt(x, Fin(ONE)) THEN Fin(ONE)
       ELSE x : x \in {a}} : TRUE

---------------------------------------------------------------------------
(* The Scope widget's trigger search, src/widgets/scope.rs.                *)
(* display_width, 188 in the source (192 - 2 * 2), is scaled; buffers are  *)
(* sequences indexed from 1, so samples[i] of the source is s[i + 1].      *)
DISPLAY_WIDTH == 2
MaxLen == 5

\* The sample values of the model: NaN and the finite values around a
\* threshold of one unit.
SampleVals == {NaN} \cup {Fin(v) : v \in -2..2}

\* Hysteresis thresholds: the default (0.02 in the source, one unit here)
\* and zero.
Thresholds == {Fin(1), Fin(0)}

\* trigger_mode: TriggerMode::RisingEdge, the only mode Scope::new sets
TriggerMode == "RisingEdge"

Min(a, b) == IF a < b THEN a ELSE b
\* usize::saturating_sub
SatSub(a, b) == IF a >= b THEN a - b ELSE 0

NoTrigger == [valid |-> FALSE, pos |-> 0]

\* Mutant: firing on any positive sample, without hysteresis.
AboveZero(x, th) == FGt(x, Fin(0))

\* samples[i] < -threshold
Below(x, th) == FLt(x, FNeg(th))
\* samples[i] > threshold
Above(x, th) == FGt(x, th)

\* The loop of the rising-edge arm from index i with the armed flag as it
\* stands; the value when the loop ends without a return is the fallback.
RECURSIVE ScanRising(_, _, _, _, _, _)
ScanRising(s, th, i, search_end, armed, fallback) ==
    IF i >= search_end THEN fallback
    ELSE LET a == armed \/ Below(s[i + 1], th)
         IN IF a /\ Above(s[i + 1], th) THEN i
            ELSE ScanRising(s, th, i + 1, search_end, a, fallback)

\* The loop of the falling-edge arm.
RECURSIVE ScanFalling(_, _, _, _, _, _)
ScanFalling(s, th, i, search_end, armed, fallback) ==
    IF i >= search_end THEN fallback
    ELSE LET a == armed \/ Above(s[i + 1], th)
         IN IF a /\ Below(s[i + 1], th) THEN i
            ELSE ScanFalling(s, th, i + 1, search_end, a, fallback)

\* Scope::find_trigger_point
find_trigger_point(samples, width, threshold, mode) ==
    LET half == width \div 2
        search_start == half
        search_end == SatSub(Len(samples), half)
        fallback == Min(half, SatSub(Len(samples), 1))
    IN IF search_start >= search_end \/ search_end < 2 THEN fallback
       ELSE IF mode = "RisingEdge"
            THEN ScanRising(samples, threshold, search_start, search_end,
                            FALSE, fallback)
            ELSE ScanFalling(samples, threshold, search_start, search_end,
                             FALSE, fallback)

\* Scope::new
ScopeInit ==
    /\ raw_buffer = <<>>
    /\ trigger_threshold = Fin(1)
    /\ trigger_pos = NoTrigger

\* The buffers raw_buffer can hold: every sequence of up to MaxLen samples.
RawBuffers == UNION {[1..n -> SampleVals] : n \in 0..MaxLen}

\* A widget built with one of the thresholds that holds one of the buffers.
TrigInit ==
    /\ raw_buffer \in RawBuffers
    /\ trigger_threshold \in Thresholds
    /\ trigger_pos = NoTrigger

\* let trigger_pos = self.find_trigger_point();
FindTrigger ==
    /\ ~trigger_pos.valid
    /\ trigger_pos' = [valid |-> TRUE,
                       pos |-> find_trigger_point(raw_buffer, DISPLAY_WIDTH,
                                                  trigger_threshold, TriggerMode)]
    /\ UNCHANGED <<raw_buffer, trigger_threshold>>

---------------------------------------------------------------------------
(* The Scope widget: ingest_buffer and set_source, src/widgets/scope.rs.   *)
MaxIngests == 3
MaxIngestLen == 3

\* The display widths of the widget model: display_width, 188 in the
\* source, is even.
DisplayWidths == {DISPLAY_WIDTH, 2 * DISPLAY_WIDTH}

\* The ids of the ScopeSource values handed to the widget.
SourceIds == {1, 2}

\* vec![0.0; n]
Zeros(n) == [i \in 1..n |-> Fin(0)]

NoIngest == [updated |-> FALSE, display_start |-> 0, display_end |-> 0,
             span |-> 0, panicked |-> FALSE]

NoRebuild == [valid |-> FALSE, view |-> 0, prev_state |-> 0,
              set_source |-> FALSE]

\* Scope::new, and a view state that tracks no source
WidgetInit ==
    /\ display_width = DISPLAY_WIDTH
    /\ display_points = Zeros(DISPLAY_WIDTH)
    /\ generation = 0
    /\ source = 0
    /\ anim_requested = FALSE
    /\ raw_from = <<>>
    /\ last_ingest = NoIngest
    /\ ningests = 0
    /\ nsamples = 0
    /\ view_state = 0
    /\ last_rebuild = NoRebuild

\* The k-th sample handed to the widget: a square wave of period four whose
\* magnitude is k, so that every sample is told from every other and from
\* the zeros of the padding.
Wave(k) == IF k % 4 \in {1, 2} THEN Fin(-k) ELSE Fin(k)

\* The next buffer of n samples.
NextBuffer(n) == [i \in 1..n |-> Wave(nsamples + i)]

\* Mutant: a decimation that takes every second sample.
SrcIdxSkip(display_start, i, span, width) == display_start + 2 * i

\* let step = span as f64 / self.display_width as f64;
\* let src_idx = display_start + (i as f64 * step) as usize;
\* (exact in f64 for the spans the branch runs with)
SrcIdx(display_start, i, span, width) == display_start + (i * span) \div width

\* Mutant: the samples are placed at the left of the display.
OffsetLeft(width, span) == 0

\* let offset = (self.display_width - span) / 2;
Offset(width, span) == (width - span) \div 2

\* The two branches that fill display_points from raw (lines 211-232).
FillDisplay(raw, width, display_start, span) ==
    IF span >= width
    THEN [i \in 1..width |->
            raw[Min(SrcIdx(display_start, i - 1, span, width), Len(raw) - 1) + 1]]
    ELSE [i \in 1..width |->
            IF i - 1 >= Offset(width, span) /\ i - 1 < Offset(width, span) + span
            THEN raw[display_start + (i - 1) - Offset(width, span) + 1]
            ELSE Fin(0)]

\* Mutant: the eviction drops the newest samples.
KeepFirst(ext, max_raw) == SubSeq(ext, 1, Min(Len(ext), max_raw))

\* self.raw_buffer.extend_from_slice(samples); drain(..len - max_raw)
KeepLast(ext, max_raw) == SubSeq(ext, SatSub(Len(ext), max_raw) + 1, Len(ext))

\* Mutant: the display start by a plain subtraction.
DisplayStartMinus(pos, half) == pos - half

\* Mutant: the display starts at the trigger.
DisplayStartAtTrigger(pos, half) == pos

\* let display_start = trigger_pos.saturating_sub(half);
DisplayStart(pos, half) == SatSub(pos, half)

\* Mutant: an ingest that leaves the counter as it was.
SameGeneration(g) == g

\* self.generation += 1;
NextGeneration(g) == g + 1

\* The indexes i of the loops of find_trigger_point that read samples[i]
\* (all of them when the loop finds no trigger).
ScanReads(len, width) ==
    LET half == width \div 2
        search_end == SatSub(len, half)
    IN IF half >= search_end \/ search_end < 2 THEN {}
       ELSE half..(search_end - 1)

\* The display slots the else branch fills from raw_buffer.
FilledSlots(width, span) ==
    {i \in 0..(width - 1) :
        i >= Offset(width, span) /\ i < Offset(width, span) + span}

\* The indexes of raw_buffer the two branches read (lines 215-232).
FillReads(len, width, display_start, span) ==
    IF span >= width
    THEN {Min(SrcIdx(display_start, i, span, width), len - 1) : i \in 0..(width - 1)}
    ELSE {display_start + i - Offset(width, span) : i \in FilledSlots(width, span)}

\* The usize subtractions a - b of ingest_buffer after the trigger search,
\* as pairs <<a, b>>.
IngestSubs(len, width, display_start, display_end, span) ==
    {<<display_end, display_start>>}
        \cup (IF span >= width
              THEN {<<len, 1>>}
              ELSE {<<width, span>>}
                       \cup {<<display_start + i, Offset(width, span)>> :
                                 i \in FilledSlots(width, span)})

\* ingest_buffer panics: an index past the end of raw_buffer or of
\* display_points, or a usize that goes below zero (the overflow panic of
\* a debug build).
IngestPanics(len, width, npoints, display_start, display_end, span) ==
    \/ display_start < 0
    \/ \E i \in ScanReads(len, width) : i >= len
    \/ \E sub \in IngestSubs(len, width, display_start, display_end, span) :
           sub[1] < sub[2]
    \/ \E i \in FillReads(len, width, display_start, span) : i < 0 \/ i >= len
    \/ width > npoints

\* Scope::ingest_buffer(buffer)
IngestBuffer(buffer) ==
    IF buffer = <<>>
    THEN /\ last_ingest' = NoIngest
         /\ UNCHANGED <<raw_buffer, raw_from, trigger_pos, display_points,
                        generation>>
    ELSE LET max_raw == display_width * 4
             raw == KeepLast(raw_buffer \o buffer, max_raw)
             pos == find_trigger_point(raw, display_width, trigger_threshold,
                                       TriggerMode)
             half == display_width \div 2
             display_start == DisplayStart(pos, half)
             display_end == Min(pos + half, Len(raw))
             span == display_end - display_start
         IN /\ raw_buffer' = raw
            /\ raw_from' = KeepLast(raw_from \o [i \in 1..Len(buffer) |-> source],
                                    max_raw)
            /\ trigger_pos' = [valid |-> TRUE, pos |-> pos]
            /\ IF IngestPanics(Len(raw), display_width, Len(display_points),
                               display_start, display_end, span)
               THEN \* the panic unwinds out of ingest_buffer
                    /\ last_ingest' = [updated |-> FALSE,
                                       display_start |-> display_start,
                                       display_end |-> display_end,
                                       span |-> span, panicked |-> TRUE]
                    /\ UNCHANGED <<display_points, generation>>
               ELSE /\ display_points' =
                           FillDisplay(raw, display_width, display_start, span)
                    /\ generation' = NextGeneration(generation)
                    /\ last_ingest' = [updated |-> TRUE,
                                       display_start |-> display_start,
                                       display_end |-> display_end,
                                       span |-> span, panicked |-> FALSE]

\* Scope::ingest_buffer with a buffer of n samples (push_buffer, or
\* on_anim_frame with the buffer a poll returned).
Ingest(n) ==
    /\ ningests < MaxIngests
    /\ ningests' = ningests + 1
    /\ nsamples' = nsamples + n
    /\ IngestBuffer(NextBuffer(n))
    /\ UNCHANGED <<trigger_threshold, display_width, source, anim_requested,
                   view_state, last_rebuild>>

\* Scope::set_source
SetSource(id) ==
    /\ source' = id
    /\ anim_requested' = TRUE
    /\ UNCHANGED <<raw_buffer, trigger_threshold, trigger_pos, display_width,
                   display_points, generation, raw_from, last_ingest, ningests,
                   nsamples>>

\* The source a view carries: the id of a ScopeSource, or 0 for None.
ViewSources == {0} \cup SourceIds

\* let source_id = self.source.as_ref().map_or(0, |s| s.id());
SourceIdOf(v) == v

\* Mutant: a rebuild that leaves the view state as it was.
KeepViewState(source_id) == view_state

\* *view_state = source_id;
NewViewState(source_id) == source_id

\* View::build for a view that carries v: a new widget from Scope::new and
\* with_source, and the view state for it.
BuildWidget(v, width) ==
    /\ raw_buffer' = <<>>
    /\ trigger_threshold' = Fin(1)
    /\ trigger_pos' = NoTrigger
    /\ display_width' = width
    /\ display_points' = Zeros(width)
    /\ generation' = 0
    /\ source' = v
    /\ anim_requested' = FALSE
    /\ raw_from' = <<>>
    /\ last_ingest' = NoIngest
    /\ view_state' = SourceIdOf(v)
    /\ last_rebuild' = NoRebuild

\* The view is torn down and built again.
Build(v) ==
    /\ BuildWidget(v, display_width)
    /\ UNCHANGED <<ningests, nsamples>>

\* View::rebuild for a view that carries v.
Rebuild(v) ==
    IF SourceIdOf(v) # view_state
    THEN /\ IF v # 0
            THEN SetSource(v)
            ELSE UNCHANGED <<raw_buffer, trigger_threshold, trigger_pos,
                             display_width, display_points, generation, source,
                             anim_requested, raw_from, last_ingest, ningests,
                             nsamples>>
         /\ view_state' = NewViewState(SourceIdOf(v))
         /\ last_rebuild' = [valid |-> TRUE, view |-> v, prev_state |-> view_state,
                             set_source |-> v # 0]
    ELSE /\ last_rebuild' = [valid |-> TRUE, view |-> v, prev_state |-> view_state,
                             set_source |-> FALSE]
         /\ UNCHANGED <<raw_buffer, trigger_threshold, trigger_pos, display_width,
                        display_points, generation, source, anim_requested,
                        raw_from, last_ingest, ningests, nsamples, view_state>>

\* A widget and its view state as View::build makes them, with one of the
\* display widths and for a view with or without a source.
InitWidget ==
    /\ raw_buffer = <<>>
    /\ trigger_threshold = Fin(1)
    /\ trigger_pos = NoTrigger
    /\ display_width \in DisplayWidths
    /\ display_points = Zeros(display_width)
    /\ generation = 0
    /\ source \in ViewSources
    /\ anim_requested = FALSE
    /\ raw_from = <<>>
    /\ last_ingest = NoIngest
    /\ ningests = 0
    /\ nsamples = 0
    /\ view_state = SourceIdOf(source)
    /\ last_rebuild = NoRebuild

NextWidget ==
    \/ \E n \in 0..MaxIngestLen : Ingest(n)
    \/ \E v \in ViewSources : Rebuild(v)
    \/ \E v \in ViewSources : Build(v)

---------------------------------------------------------------------------
(* ScopeSource::new, ScopeSource::clone and the id counter,                *)
(* src/widgets/scope.rs lines 61-80.  The counter is a u64 that starts at  *)
(* 1; it does not wrap within the number of calls a process can make.      *)
MaxNew == 3
MaxSources == 5

\* The threads that call ScopeSource::new.
Threads == {1, 2}

NotInNew == [pc |-> "idle", chan |-> 0, id |-> 0]

\* Bounds of the handle model: start calls, callbacks of one stream, and
\* stop calls that are followed.
MaxStarts == 2
MaxCallbacks == 1
MaxStops == 2

\* No DspHandle yet (before DemoState::new).
NoDsp == [params |-> 0, scope_source |-> 0, stream |-> 0]

NoAttempt == [pc |-> "idle", n |-> 0, sel |-> "default", params0 |-> <<>>,
              dsp0 |-> NoDsp]

\* The process before DemoState::new has run.
HandleInit ==
    /\ dsp = NoDsp
    /\ att = NoAttempt
    /\ nstarts = 0
    /\ results = <<>>
    /\ live = {}
    /\ playing = {}
    /\ cbCount = [n \in 1..MaxStarts |-> 0]
    /\ stopLog = <<>>

\* The f32 format, scaled: 1 sign bit, ExpBits exponent bits and MantBits
\* fraction bits (8 and 23 in the source), in a cell of that width.
ExpBits == 3
MantBits == 3

RECURSIVE Pow2(_)
Pow2(n) == IF n = 0 THEN 1 ELSE 2 * Pow2(n - 1)

\* The width of the AtomicU32 cell, scaled with the format.
CellWidth == 1 + ExpBits + MantBits

\* Every f32: zeros, subnormals, normals, infinities and the NaNs with
\* every payload, quiet and signalling.
F32 == [sign : 0..1, exp : 0..(Pow2(ExpBits) - 1), mant : 0..(Pow2(MantBits) - 1)]

\* f32::is_nan
is_nan(v) == v.exp = Pow2(ExpBits) - 1 /\ v.mant # 0
\* A NaN whose first fraction bit is clear is a signalling NaN.
IsSignalling(v) == is_nan(v) /\ v.mant < Pow2(MantBits - 1)

\* f32::to_bits, and the store of the word into the cell
to_bits(v) ==
    ((v.sign * Pow2(ExpBits) + v.exp) * Pow2(MantBits) + v.mant) % Pow2(CellWidth)

\* Mutant: a from_bits that makes every NaN a quiet NaN.
from_bits_quiet(b) ==
    LET m == b % Pow2(MantBits)
        e == (b \div Pow2(MantBits)) % Pow2(ExpBits)
    IN [sign |-> b \div Pow2(ExpBits + MantBits), exp |-> e,
        mant |-> IF e = Pow2(ExpBits) - 1 /\ m # 0 /\ m < Pow2(MantBits - 1)
                 THEN m + Pow2(MantBits - 1) ELSE m]

\* f32::from_bits
from_bits(b) ==
    [sign |-> b \div Pow2(ExpBits + MantBits),
     exp |-> (b \div Pow2(MantBits)) % Pow2(ExpBits),
     mant |-> b % Pow2(MantBits)]

NotLoaded == [valid |-> FALSE, v |-> from_bits(0)]
NotGot == [valid |-> FALSE, field |-> "mute", b |-> FALSE]
BoolFields == {"mute", "lfo_enabled"}

\* v as u32
BoolAsU32(b) == IF b THEN 1 ELSE 0

\* AtomicF32::new(0.0); SharedParams::new(.., lfo_enabled = true):
\* mute: AtomicU32::new(0), lfo_enabled: AtomicU32::new(true as u32)
AtomInit ==
    /\ abits = to_bits(from_bits(0))
    /\ astored = from_bits(0)
    /\ aloaded = NotLoaded
    /\ bcell = [f \in BoolFields |-> IF f = "mute" THEN 0 ELSE BoolAsU32(TRUE)]
    /\ bset = [f \in BoolFields |-> f # "mute"]
    /\ bgot = NotGot

\* Bound of the button model: the actions emitted.
MaxClicks == 2

NoEvent == [ev |-> "none", active0 |-> FALSE, captured0 |-> FALSE,
            hovered0 |-> FALSE, disabled0 |-> FALSE, active1 |-> FALSE,
            emitted |-> <<>>]

\* PushButton::new(false), not pressed, pointer elsewhere
ButtonInit ==
    /\ pb_active = FALSE
    /\ pb_captured = FALSE
    /\ pb_hovered = FALSE
    /\ pb_disabled = FALSE
    /\ pb_last = NoEvent
    /\ pb_clicks = 0

\* f64::clamp(lo, hi) for lo <= hi
ClampTo(x, lo, hi) == IF x < lo THEN lo ELSE IF x > hi THEN hi ELSE x

\* Fader::db_to_normalized: 0 for an empty range, else the position of db
\* in the range, clamped to [0, 1].  The dB values and ranges of the model
\* make the division exact.
db_to_normalized(db, min_db, max_db) ==
    IF max_db - min_db = 0 THEN 0
    ELSE ClampTo(TDiv((db - min_db) * ONE, max_db - min_db), 0, ONE)

\* Fader::normalized_to_db
normalized_to_db(norm, min_db, max_db) ==
    min_db + TDiv(norm * (max_db - min_db), ONE)

NoFaderEvent == [ev |-> "none", count |-> 0, emitted |-> <<>>,
                 captured0 |-> FALSE, captured1 |-> FALSE,
                 drag0 |-> <<>>, drag1 |-> <<>>, db1 |-> 0, default_db |-> 0]

\* Fader::new(-4.0, 4.0, 0.0, -2.0)
FaderInit ==
    /\ fd_value = db_to_normalized(0, -4, 4)
    /\ fd_min_db = -4
    /\ fd_max_db = 4
    /\ fd_default_db = ClampTo(-2, -4, 4)
    /\ fd_drag_start_y = <<>>
    /\ fd_drag_start_value = 0
    /\ fd_captured = FALSE
    /\ fd_last = NoFaderEvent

\* No animation frame has run.
AnimInit ==
    /\ fpc = "idle"
    /\ frame_polls = 0
    /\ ingested = {}

\* push_button(false, ..) built over PushButton::new(false); no action
\* is waiting.
ButtonViewInit ==
    /\ pb_view = FALSE
    /\ pb_pending = <<>>

\* ParamSelector::new
NewSelected(labels, selected) == Min(selected, SatSub(Len(labels), 1))

\* param_selector(["a", "b"], 0, ..) and the widget View::build makes
SelectorInit ==
    /\ ps_view = [labels |-> <<"a", "b">>, selected |-> 0]
    /\ ps_labels = <<"a", "b">>
    /\ ps_selected = NewSelected(<<"a", "b">>, 0)
    /\ ps_last = "build"

\* Knob::new(min, max, value, default) and with_step
KnobNew(min, max, value, default, step) ==
    /\ kn_value = ClampTo(value, min, max)
    /\ kn_min = min
    /\ kn_max = max
    /\ kn_default = ClampTo(default, min, max)
    /\ kn_step = step
    /\ kn_drag_start_y = <<>>
    /\ kn_drag_start_value = 0
    /\ kn_captured = FALSE

\* knob(0.0, 8.0, 4.0, 0.0, ..) and the widget View::build makes
KnobInit ==
    /\ KnobNew(0, 8, 4, 0, 0)
    /\ kn_view = [min |-> 0, max |-> 8, value |-> 4]
    /\ kn_last = [ev |-> "build", emitted |-> <<>>]

NoCallback == [cb |-> "none", v |-> FALSE, started |-> FALSE, ok |-> FALSE]

\* DemoState::new: selected_device: 0, audio_started: false
DemoInit ==
    /\ audio_started = FALSE
    /\ selected_device = 0
    /\ demo_last = NoCallback

ViewInit == ButtonViewInit /\ SelectorInit /\ KnobInit /\ DemoInit

UiInit == AtomInit /\ ButtonInit /\ FaderInit /\ AnimInit /\ ViewInit

\* static SCOPE_SOURCE_NEXT_ID: AtomicU64 = AtomicU64::new(1);
AppInit ==
    /\ next_id = 1
    /\ sources = <<>>
    /\ tnew = [t \in Threads |-> NotInNew]
    /\ nnew = 0
    /\ HandleInit
    /\ UiInit

\* Mutant: a fetch_add that leaves the counter as it was.
FetchAddLost(old) == old

\* The value fetch_add(1) leaves in the counter.
FetchAdd(old) == old + 1

\* inner: Arc::new(Mutex::new(output)): thread t enters new with the Output
\* of a triple buffer of its own, the nnew-th one made.
NewInner(t) ==
    /\ tnew[t].pc = "idle"
    /\ nnew < MaxNew
    /\ nnew' = nnew + 1
    /\ tnew' = [tnew EXCEPT ![t] = [pc |-> "inner", chan |-> nnew + 1, id |-> 0]]
    /\ UNCHANGED <<next_id, sources>>

\* id: SCOPE_SOURCE_NEXT_ID.fetch_add(1, Relaxed): one atomic
\* read-modify-write that returns the value it found.
NewFetchAdd(t) ==
    /\ tnew[t].pc = "inner"
    /\ tnew' = [tnew EXCEPT ![t].pc = "made", ![t].id = next_id]
    /\ next_id' = FetchAdd(next_id)
    /\ UNCHANGED <<sources, nnew>>

\* new returns the ScopeSource.
NewReturn(t) ==
    /\ tnew[t].pc = "made"
    /\ sources' = Append(sources, [id |-> tnew[t].id, chan |-> tnew[t].chan,
                                   clone_of |-> 0])
    /\ tnew' = [tnew EXCEPT ![t] = NotInNew]
    /\ UNCHANGED <<next_id, nnew>>

\* #[derive(Clone)]: the clone has the id and the Arc of sources[h].
CloneSource(h) ==
    /\ Len(sources) < MaxSources
    /\ sources' = Append(sources, [id |-> sources[h].id, chan |-> sources[h].chan,
                                   clone_of |-> h])
    /\ UNCHANGED <<next_id, tnew, nnew>>

NextIds ==
    \/ \E t \in Threads : NewInner(t)
    \/ \E t \in Threads : NewFetchAdd(t)
    \/ \E t \in Threads : NewReturn(t)
    \/ \E h \in 1..Len(sources) : CloneSource(h)

---------------------------------------------------------------------------
(* The channel after triple_buffer(&Vec::new()) and ScopeSource::new:      *)
(* three empty buffers, back buffer 0 clean, input 1, output 2.            *)
ChanInit ==
    /\ buffers = [i \in 0..2 |-> <<>>]
    /\ back_info = [idx |-> 0, dirty |-> FALSE]
    /\ input_idx = 1
    /\ output_idx = 2
    /\ scope_accum = <<>>
    /\ accum_cap = SCOPE_SAMPLES
    /\ buf_cap = [i \in 0..2 |-> 0]
    /\ produced = 0
    /\ apc = "idle"
    /\ mutex = 0
    /\ cpc = [c \in Clones |-> "idle"]
    /\ ccopy = [c \in Clones |-> <<>>]
    /\ result = [c \in Clones |-> NoneRes]
    /\ lockPub = [c \in Clones |-> 0]
    /\ published = <<>>
    /\ returns = <<>>
    /\ lastPoll = NoPoll
    /\ lockStop = [c \in Clones |-> FALSE]
    /\ stopPolls = <<>>

consVars == <<mutex, cpc, ccopy, result, lockPub, returns, lastPoll, lockStop,
              stopPolls>>
prodVars == <<scope_accum, produced, apc, published, accum_cap, buf_cap>>

---------------------------------------------------------------------------
(* The producer: the audio callback of DspEngine::make_stream.             *)

\* The sample stream is identified by position: the k-th mono sample the
\* engine produces is k.
NewSamples(n) == [k \in 1..n |-> produced + k]

\* scope_accum.len() >= SCOPE_SAMPLES
AccumFull(accum) == Len(accum) >= SCOPE_SAMPLES

\* Vec::push up to length len: a full Vec doubles its capacity (RawVec's
\* amortized growth), which allocates.
RECURSIVE PushCap(_, _)
PushCap(cap, len) == IF len <= cap THEN cap ELSE PushCap(2 * cap, len)

\* Vec::extend_from_slice of n elements onto an empty Vec: reserve(n),
\* which allocates when n is more than the capacity.
ReserveCap(cap, n) == IF n <= cap THEN cap ELSE (IF 2 * cap > n THEN 2 * cap ELSE n)

\* The frame loop of one callback with n frames: n pushes to scope_accum;
\* then the test of the publish step.
AudioBlock(n) ==
    /\ apc = "idle"
    /\ produced + n <= MaxSamples
    /\ scope_accum' = scope_accum \o NewSamples(n)
    /\ accum_cap' = PushCap(accum_cap, Len(scope_accum'))
    /\ produced' = produced + n
    /\ apc' = IF AccumFull(scope_accum') THEN "clear" ELSE "idle"
    /\ UNCHANGED <<buffers, back_info, input_idx, output_idx, published,
                   buf_cap>>
    /\ UNCHANGED consVars

\* let buf = scope_input.input_buffer_mut(); buf.clear();
BufClear ==
    /\ apc = "clear"
    /\ buffers' = [buffers EXCEPT ![input_idx] = <<>>]
    /\ apc' = "extend"
    /\ UNCHANGED <<back_info, input_idx, output_idx, scope_accum, produced,
                   published, accum_cap, buf_cap>>
    /\ UNCHANGED consVars

\* buf.extend_from_slice(&scope_accum[..SCOPE_SAMPLES]), one sample a step
ExtendDone(buf) == Len(buf) = SCOPE_SAMPLES

BufExtend ==
    /\ apc = "extend"
    /\ LET buf == buffers[input_idx]
           nbuf == Append(buf, scope_accum[Len(buf) + 1])
       IN /\ buffers' = [buffers EXCEPT ![input_idx] = nbuf]
          /\ apc' = IF ExtendDone(nbuf) THEN "publish" ELSE "extend"
    /\ buf_cap' = [buf_cap EXCEPT ![input_idx] = ReserveCap(@, SCOPE_SAMPLES)]
    /\ UNCHANGED <<back_info, input_idx, output_idx, scope_accum, produced,
                   published, accum_cap>>
    /\ UNCHANGED consVars

\* Mutant: the producer shares the consumers' Mutex and publishes under it.
PublishUnderMutex == mutex = 0

\* What the producer's publish needs from the consumer side: nothing.
\* Input::publish is one atomic swap of back_info; the Mutex wraps the
\* Output only.
PublishFree == TRUE

\* Mutant: a publish that finds the previous snapshot unread keeps it
\* (oldest wins) and drops the new one.
PublishKeepUnread ==
    /\ apc = "publish"
    /\ PublishFree
    /\ published' = Append(published, buffers[input_idx])
    /\ IF back_info.dirty
       THEN UNCHANGED <<back_info, input_idx>>
       ELSE /\ back_info' = [idx |-> input_idx, dirty |-> TRUE]
            /\ input_idx' = back_info.idx
    /\ scope_accum' = <<>>
    /\ apc' = "idle"
    /\ UNCHANGED <<buffers, output_idx, produced, accum_cap, buf_cap>>
    /\ UNCHANGED consVars

\* scope_input.publish(); scope_accum.clear();
Publish ==
    /\ apc = "publish"
    /\ PublishFree
    /\ published' = Append(published, buffers[input_idx])
    /\ back_info' = [idx |-> input_idx, dirty |-> TRUE]
    /\ input_idx' = back_info.idx
    /\ scope_accum' = <<>>
    /\ apc' = "idle"
    /\ UNCHANGED <<buffers, output_idx, produced, accum_cap, buf_cap>>
    /\ UNCHANGED consVars

\* DspHandle::stop: the stream, and with it the callback and the
\* triple-buffer Input it owns, is dropped between two callbacks.
Stop ==
    /\ apc = "idle"
    /\ apc' = "stopped"
    /\ UNCHANGED <<buffers, back_info, input_idx, output_idx, scope_accum,
                   produced, published, accum_cap, buf_cap>>
    /\ UNCHANGED consVars

---------------------------------------------------------------------------
(* The consumers: ScopeSource::poll on each clone.                         *)

\* Position in `published` of a returned snapshot (0: not a publish).
PubIndex(s) ==
    IF \E i \in 1..Len(published) : published[i] = s
    THEN CHOOSE i \in 1..Len(published) : published[i] = s
    ELSE 0

\* The newest publish any poll has returned so far.
MaxReturned ==
    IF returns = <<>> THEN 0 ELSE PubIndex(returns[Len(returns)])

\* Bound of the model: the polls begun after the stop that are followed.
MaxStopPolls == 2

\* poll returns `res`: the MutexGuard is dropped.
PollReturn(c, res) ==
    /\ result' = [result EXCEPT ![c] = res]
    /\ returns' = IF res.some THEN Append(returns, res.samples) ELSE returns
    /\ lastPoll' = [valid |-> TRUE, c |-> c, res |-> res,
                    lockPub |-> lockPub[c], retPub |-> Len(published),
                    prevReturns |-> MaxReturned]
    /\ mutex' = 0
    /\ cpc' = [cpc EXCEPT ![c] = "idle"]
    /\ ccopy' = [ccopy EXCEPT ![c] = <<>>]
    /\ stopPolls' = IF lockStop[c] THEN Append(stopPolls, res) ELSE stopPolls
    /\ UNCHANGED <<lockPub, lockStop>>

\* let mut out = self.inner.lock().unwrap();
PollLock(c) ==
    /\ cpc[c] = "idle"
    /\ mutex = 0
    /\ Len(stopPolls) < MaxStopPolls
    /\ mutex' = c
    /\ cpc' = [cpc EXCEPT ![c] = "update"]
    /\ lockPub' = [lockPub EXCEPT ![c] = Len(published)]
    /\ lockStop' = [lockStop EXCEPT ![c] = (apc = "stopped")]
    /\ UNCHANGED <<buffers, back_info, input_idx, output_idx>>
    /\ UNCHANGED <<ccopy, result, returns, lastPoll, stopPolls>>
    /\ UNCHANGED prodVars

\* Mutant: poll takes the back buffer whether or not it is marked new.
UpdatedAlways == TRUE

\* if out.update(): Output::updated, the dirty bit of back_info
Updated == back_info.dirty

\* out.update(), first half: the load of the dirty bit
PollUpdated(c) ==
    /\ cpc[c] = "update"
    /\ IF Updated
       THEN /\ cpc' = [cpc EXCEPT ![c] = "swap"]
            /\ UNCHANGED <<mutex, ccopy, result, lockPub, returns, lastPoll,
                           lockStop, stopPolls>>
       ELSE PollReturn(c, NoneRes)
    /\ UNCHANGED <<buffers, back_info, input_idx, output_idx>>
    /\ UNCHANGED prodVars

\* Mutant: a swap that leaves the back buffer marked as new.
PollSwapKeepDirty(c) ==
    /\ cpc[c] = "swap"
    /\ output_idx' = back_info.idx
    /\ back_info' = [idx |-> output_idx, dirty |-> TRUE]
    /\ cpc' = [cpc EXCEPT ![c] = "peek"]
    /\ UNCHANGED <<buffers, input_idx>>
    /\ UNCHANGED <<mutex, ccopy, result, lockPub, returns, lastPoll,
                   lockStop, stopPolls>>
    /\ UNCHANGED prodVars

\* out.update(), second half: the swap of the output and back buffers
PollSwap(c) ==
    /\ cpc[c] = "swap"
    /\ output_idx' = back_info.idx
    /\ back_info' = [idx |-> output_idx, dirty |-> FALSE]
    /\ cpc' = [cpc EXCEPT ![c] = "peek"]
    /\ UNCHANGED <<buffers, input_idx>>
    /\ UNCHANGED <<mutex, ccopy, result, lockPub, returns, lastPoll,
                           lockStop, stopPolls>>
    /\ UNCHANGED prodVars

\* Mutant: poll reads the back buffer in place instead of the buffer it
\* swapped out.
PeekBack == back_info.idx

\* out.peek_output_buffer(): the buffer poll reads
PeekIdx == output_idx

\* if !samples.is_empty()
PollPeek(c) ==
    /\ cpc[c] = "peek"
    /\ IF buffers[PeekIdx] = <<>>
       THEN PollReturn(c, NoneRes)
       ELSE /\ cpc' = [cpc EXCEPT ![c] = "clone"]
            /\ UNCHANGED <<mutex, ccopy, result, lockPub, returns, lastPoll,
                           lockStop, stopPolls>>
    /\ UNCHANGED <<buffers, back_info, input_idx, output_idx>>
    /\ UNCHANGED prodVars

\* samples.clone(), one sample a step; then
\* return Some(ScopeBuffer::from_arc(Arc::new(..)))
PollClone(c) ==
    /\ cpc[c] = "clone"
    /\ LET buf == buffers[PeekIdx]
       IN IF Len(ccopy[c]) < Len(buf)
          THEN /\ ccopy' = [ccopy EXCEPT ![c] = Append(@, buf[Len(@) + 1])]
               /\ UNCHANGED <<mutex, cpc, result, lockPub, returns, lastPoll,
                              lockStop, stopPolls>>
          ELSE PollReturn(c, SomeRes(ccopy[c]))
    /\ UNCHANGED <<buffers, back_info, input_idx, output_idx>>
    /\ UNCHANGED prodVars

\* A clone of the ScopeSource is dropped (never in the middle of its poll).
DropClone(c) ==
    /\ cpc[c] = "idle"
    /\ cpc' = [cpc EXCEPT ![c] = "dropped"]
    /\ UNCHANGED <<buffers, back_info, input_idx, output_idx>>
    /\ UNCHANGED <<mutex, ccopy, result, lockPub, returns, lastPoll,
                           lockStop, stopPolls>>
    /\ UNCHANGED prodVars

NextChan ==
    \/ \E n \in BlockSizes : AudioBlock(n)
    \/ BufClear
    \/ BufExtend
    \/ Publish
    \/ Stop
    \/ \E c \in Clones : PollLock(c)
    \/ \E c \in Clones : PollUpdated(c)
    \/ \E c \in Clones : PollSwap(c)
    \/ \E c \in Clones : PollPeek(c)
    \/ \E c \in Clones : PollClone(c)
    \/ \E c \in Clones : DropClone(c)


---------------------------------------------------------------------------
(* The parameter store and the audio callback's parameter reads and frame  *)
(* loop (DspEngine::make_stream).                                          *)

\* The sample rate of the device, in Hz; scaled so that the oscillators
\* step in quarters and the LFO in eighths of a cycle.
SampleRate == 4
\* Bounds of the engine model.
MaxWrites == 2
MaxBlocks == 2
MaxFrames == 2

\* The loads of lines 259-266, in program order.
Fields == <<"freq1", "freq2", "volume_db", "lfo_enabled", "mute", "waveform",
            "lfo_range", "lfo_speed">>
FieldNames == {Fields[i] : i \in 1..Len(Fields)}

\* Waveform::from_index
from_index(idx) ==
    CASE idx = 0 -> "Sine"
      [] idx = 1 -> "Saw"
      [] idx = 2 -> "Triangle"
      [] idx = 3 -> "Pulse"
      [] OTHER -> "Sine"

\* Waveform::sample
sample(w, phase) ==
    CASE w = "Sine" -> SinTau(phase)
      [] w = "Saw" -> FSub(FMul(Fin(2 * ONE), phase), Fin(ONE))
      [] w = "Triangle" ->
            FSub(FMul(Fin(4 * ONE),
                      FAbs(FSub(phase, FFloor(FAdd(phase, Fin(ONE \div 2)))))),
                 Fin(ONE))
      [] w = "Pulse" ->
            IF FLt(FMul(Fin(100 * ONE), phase), Fin(55 * ONE))
            THEN Fin(ONE) ELSE Fin(-ONE)

\* What a load of field f returns for the raw value v of its atomic:
\* AtomicF32::load() as f64, lfo_enabled(), muted(), waveform().
Conv(f, v) ==
    CASE f \in {"lfo_enabled", "mute"} -> v # 0
      [] f = "waveform" -> from_index(v)
      [] OTHER -> v

\* SharedParams::new(freq1, freq2, volume_db, lfo_enabled) with the LFO on,
\* unit gain and the two oscillators a quarter and half a cycle a sample.
\* lfo_range is 8.0; lfo_speed, 0.0001 in the source, is below the
\* resolution of the fixed-point values and is 0 until the UI stores one
\* (the drift with a non-zero speed is also the subject of SpecLfo).
ParamsInit ==
    [freq1 |-> Fin(ONE), freq2 |-> Fin(2 * ONE), volume_db |-> Fin(0),
     lfo_enabled |-> 1, mute |-> 0, waveform |-> 0,
     lfo_range |-> Fin(8 * ONE), lfo_speed |-> Fin(0)]

\* Mutant: a load that returns the value the field was constructed with.
LoadInitial(f) == Conv(f, ParamsInit[f])

\* params.<f>.load(): the current value of the atomic.  A relaxed atomic
\* is coherent per location: a load returns the latest store in the
\* field's modification order, and a store takes its place in that order
\* at the Store step.
Load(f) == Conv(f, params[f])

\* The callback's locals before its loads.
BlkInit ==
    [freq1 |-> Fin(0), freq2 |-> Fin(0), volume_db |-> Fin(0),
     lfo_enabled |-> FALSE, mute |-> FALSE, waveform |-> "Sine",
     lfo_range |-> Fin(0), lfo_speed |-> Fin(0)]

\* let mut phase1 = 0.0; ... lfo_rate = 2.0; lfo_direction = 1.0;
OscInit ==
    [phase1 |-> Fin(0), phase2 |-> Fin(0), lfo_phase |-> Fin(0),
     lfo_rate |-> Fin(2 * ONE), lfo_direction |-> Fin(ONE)]

Osc == [phase1 |-> phase1, phase2 |-> phase2, lfo_phase |-> lfo_phase,
        lfo_rate |-> lfo_rate, lfo_direction |-> lfo_direction]

EngInit ==
    /\ params = ParamsInit
    /\ stored = [f \in FieldNames |-> {ParamsInit[f]}]
    /\ nwrites = 0
    /\ epc = "idle"
    /\ ldx = 0
    /\ blk = BlkInit
    /\ frames = 0
    /\ data = <<>>
    /\ phase1 = OscInit.phase1
    /\ phase2 = OscInit.phase2
    /\ lfo_phase = OscInit.lfo_phase
    /\ lfo_rate = OscInit.lfo_rate
    /\ lfo_direction = OscInit.lfo_direction
    /\ blkStart = [blk |-> BlkInit, osc |-> OscInit, nwrites |-> 0]
    /\ nblocks = 0

\* let volume_linear = if muted { 0.0 } else { 10.0_f64.powf(volume_db / 20.0) };
volume_linear(p) ==
    IF p.mute THEN Fin(0) ELSE Powf10(FDiv(p.volume_db, Fin(20 * ONE)))

\* let lfo_mod = if lfo_on { 0.5 + 0.5 * (lfo_phase * TAU).sin() } else { 1.0 };
lfo_mod(p, o) ==
    IF p.lfo_enabled
    THEN FAdd(Fin(ONE \div 2), FMul(Fin(ONE \div 2), SinTau(o.lfo_phase)))
    ELSE Fin(ONE)

\* (mixed * lfo_mod * volume_linear) as f32: the cast keeps NaN and the
\* infinities and is exact on the model's finite values.
AsF32(x) == x

\* Lines 276-287: the clamped mono sample of one frame.
clamped(p, o) ==
    LET osc1 == sample(p.waveform, o.phase1)
        osc2 == sample(p.waveform, o.phase2)
        mixed == FMul(FAdd(osc1, osc2), Fin(ONE \div 2))
    IN Clamp(AsF32(FMul(FMul(mixed, lfo_mod(p, o)), volume_linear(p))))

\* Mutant: a phase that is never wrapped.
AdvanceNoWrap(phase, freq) == FAdd(phase, FDiv(freq, Fin(SampleRate * ONE)))

\* phase += freq / sample_rate; if phase >= 1.0 { phase -= 1.0; }
Advance(phase, freq) ==
    CHOOSE r \in
      {IF FGe(q, Fin(ONE)) THEN FSub(q, Fin(ONE)) ELSE q
       : q \in {FAdd(phase, FDiv(freq, Fin(SampleRate * ONE)))}} : TRUE

\* Lines 309-315: the LFO drift of one frame.
DriftRate(rate, dir, speed) == FAdd(rate, FMul(dir, speed))
\* Mutant: the direction turns at the top only.
DriftDirectionTopOnly(rate, dir, max) ==
    IF FGt(rate, max) THEN Fin(-ONE) ELSE dir

DriftDirection(rate, dir, max) ==
    CHOOSE d \in
      {IF FGt(r, max) THEN Fin(-ONE)
       ELSE IF FLt(r, Fin(ONE)) THEN Fin(ONE)
       ELSE dir : r \in {rate}} : TRUE

\* Lines 296-315: the oscillator state after one frame.
OscStep(p, o) ==
    [phase1 |-> Advance(o.phase1, p.freq1),
     phase2 |-> Advance(o.phase2, p.freq2),
     lfo_phase |-> Advance(o.lfo_phase, o.lfo_rate),
     lfo_rate |-> DriftRate(o.lfo_rate, o.lfo_direction, p.lfo_speed),
     lfo_direction |->
        DriftDirection(DriftRate(o.lfo_rate, o.lfo_direction, p.lfo_speed),
                       o.lfo_direction, p.lfo_range)]

\* The first n samples of a block that starts in oscillator state o and
\* uses the parameter values p for every frame.
RECURSIVE RunFrames(_, _, _)
RunFrames(p, o, n) ==
    IF n = 0 THEN <<>>
    ELSE <<clamped(p, o)>> \o RunFrames(p, OscStep(p, o), n - 1)

\* The callback is invoked with a buffer of n frames.
CallbackStart(n) ==
    /\ epc = "idle"
    /\ epc' = "load"
    /\ ldx' = 0
    /\ frames' = n
    /\ data' = <<>>
    /\ nblocks' = IF nblocks < MaxBlocks THEN nblocks + 1 ELSE nblocks
    /\ UNCHANGED <<params, stored, nwrites, blk, oscVars, blkStart>>
    /\ UNCHANGED chanVars

\* One of the eight loads of lines 259-266.
LoadParam ==
    /\ epc = "load"
    /\ LET f == Fields[ldx + 1]
       IN /\ blk' = [blk EXCEPT ![f] = Load(f)]
          /\ ldx' = ldx + 1
          /\ IF ldx' = Len(Fields)
             THEN /\ epc' = "frame"
                  /\ blkStart' = [blk |-> blk', osc |-> Osc, nwrites |-> nwrites]
             ELSE UNCHANGED <<epc, blkStart>>
    /\ UNCHANGED <<params, stored, nwrites, frames, data, oscVars, nblocks>>
    /\ UNCHANGED chanVars

\* Mutant: the frame loop loads the parameters again in every frame.
FrameParamsLive == [f \in FieldNames |-> Load(f)]

\* The parameter values the frame loop uses: the locals of lines 259-266.
FrameParams == blk

\* One iteration of the frame loop, lines 275-316.
Frame ==
    /\ epc = "frame"
    /\ \E out \in {clamped(FrameParams, Osc)}, nxt \in {OscStep(FrameParams, Osc)} :
          /\ data' = Append(data, out)
          /\ scope_accum' = Append(scope_accum, out)
          /\ accum_cap' = PushCap(accum_cap, Len(scope_accum) + 1)
          /\ phase1' = nxt.phase1
          /\ phase2' = nxt.phase2
          /\ lfo_phase' = nxt.lfo_phase
          /\ lfo_rate' = nxt.lfo_rate
          /\ lfo_direction' = nxt.lfo_direction
    /\ epc' = IF Len(data) + 1 = frames THEN "publish" ELSE "frame"
    /\ UNCHANGED <<params, stored, nwrites, ldx, blk, frames, blkStart, nblocks>>
    /\ UNCHANGED <<buffers, back_info, input_idx, output_idx, produced, apc>>
    /\ UNCHANGED <<published, buf_cap>>
    /\ UNCHANGED consVars

\* Lines 318-325: the publish step at the end of the callback.
EndOfBlock ==
    /\ epc = "publish"
    /\ epc' = "idle"
    /\ IF AccumFull(scope_accum)
       THEN /\ buffers' = [buffers EXCEPT
                              ![input_idx] = SubSeq(scope_accum, 1, SCOPE_SAMPLES)]
            /\ back_info' = [idx |-> input_idx, dirty |-> TRUE]
            /\ input_idx' = back_info.idx
            /\ scope_accum' = <<>>
            /\ buf_cap' = [buf_cap EXCEPT
                              ![input_idx] = ReserveCap(@, SCOPE_SAMPLES)]
       ELSE UNCHANGED <<buffers, back_info, input_idx, scope_accum, buf_cap>>
    /\ UNCHANGED <<output_idx, produced, apc, published, accum_cap>>
    /\ UNCHANGED consVars
    /\ UNCHANGED <<params, stored, nwrites, ldx, blk, frames, data, oscVars,
                   blkStart, nblocks>>

\* The UI thread: params.<f>.store(v), set_mute, set_lfo_enabled,
\* set_waveform.  The store validates nothing.
Store(f, v) ==
    /\ nwrites < MaxWrites
    /\ nwrites' = nwrites + 1
    /\ params' = [params EXCEPT ![f] = v]
    /\ stored' = [stored EXCEPT ![f] = @ \cup {v}]
    /\ UNCHANGED <<epc, ldx, blk, frames, data, oscVars, blkStart, nblocks>>
    /\ UNCHANGED chanVars

\* The values the UI thread stores in the model, by field.
StoreValues(f) ==
    CASE f = "freq1" -> {PInf}
      [] f = "freq2" -> {Fin(ONE)}
      [] f = "volume_db" -> {NaN}
      [] f = "lfo_enabled" -> {0}
      [] f = "mute" -> {1}
      [] f = "waveform" -> {3}
      [] f = "lfo_range" -> {Fin(2 * ONE)}
      [] f = "lfo_speed" -> {Fin(ONE)}

\* The callback's buffer sizes, in frames.
FrameCounts == 1..MaxFrames

AudioStep ==
    \/ \E n \in FrameCounts : CallbackStart(n)
    \/ LoadParam
    \/ Frame
    \/ EndOfBlock

NextEngine ==
    \/ \E n \in FrameCounts : (nblocks < MaxBlocks /\ CallbackStart(n))
    \/ LoadParam
    \/ Frame
    \/ EndOfBlock
    \/ \E f \in FieldNames : \E v \in StoreValues(f) : Store(f, v)

InitEngine == ChanInit /\ EngInit /\ ScopeInit /\ WidgetInit /\ AppInit

SpecEngine ==
    InitEngine /\ [][NextEngine /\ UNCHANGED <<scopeVars, widgetVars, appVars>>]_vars

\* The engine with the host audio subsystem invoking the callback at its
\* block cadence for as long as the stream runs: the callback's steps are
\* weakly fair, the UI thread's stores are not.
\* Here the UI thread calls set_mute(true) and set_mute(false).
MaxLiveWrites == 1

NextLive ==
    \/ \E n \in FrameCounts : CallbackStart(n)
    \/ LoadParam
    \/ Frame
    \/ EndOfBlock
    \/ \E v \in {0, 1} : (nwrites < MaxLiveWrites /\ Store("mute", v))

LiveEngine ==
    /\ InitEngine
    /\ [][NextLive /\ UNCHANGED <<scopeVars, widgetVars, appVars>>]_vars
    /\ WF_vars(AudioStep /\ UNCHANGED <<scopeVars, widgetVars, appVars>>)

\* The channel specification: the engine's part of the state stays put.
InitChan == ChanInit /\ EngInit /\ ScopeInit /\ WidgetInit /\ AppInit

SpecChan ==
    InitChan /\ [][NextChan /\ UNCHANGED <<engVars, scopeVars, widgetVars, appVars>>]_vars

---------------------------------------------------------------------------
(* The LFO drift on its own: lines 309-315 applied frame after frame with  *)
(* a constant lfo_speed and lfo_range in the callback's locals.            *)
MaxLfoRange == 3
MaxLfoSpeed == 4

\* a quarter
QUARTER == ONE \div 4

\* lfo_range values: 1.0, 2.0, ...
LfoRanges == {Fin(k * ONE) : k \in 1..MaxLfoRange}
\* lfo_speed values: 0.25, 0.5, ...
LfoSpeeds == {Fin(k * QUARTER) : k \in 1..MaxLfoSpeed}
\* the rates inside [1.0, range], in quarters
LfoRates(range) == {Fin(v) : v \in {w \in ONE..range.v : w % QUARTER = 0}}

\* The callback between two frames, with lfo_rate anywhere inside
\* [1.0, lfo_range] and lfo_direction one of the two values it takes.
LfoInit ==
    /\ ChanInit
    /\ ScopeInit
    /\ WidgetInit
    /\ AppInit
    /\ params = ParamsInit
    /\ stored = [f \in FieldNames |-> {ParamsInit[f]}]
    /\ nwrites = 0
    /\ epc = "frame"
    /\ ldx = Len(Fields)
    /\ \E range \in LfoRanges, speed \in LfoSpeeds :
          /\ blk = [BlkInit EXCEPT !.lfo_range = range, !.lfo_speed = speed]
          /\ lfo_rate \in LfoRates(range)
    /\ lfo_direction \in {Fin(ONE), Fin(-ONE)}
    /\ frames = 0
    /\ data = <<>>
    /\ phase1 = OscInit.phase1
    /\ phase2 = OscInit.phase2
    /\ lfo_phase = OscInit.lfo_phase
    /\ blkStart = [blk |-> blk, osc |-> Osc, nwrites |-> 0]
    /\ nblocks = 0

\* One drift update, lines 310-315.
LfoDrift ==
    /\ lfo_rate' = DriftRate(lfo_rate, lfo_direction, blk.lfo_speed)
    /\ lfo_direction' = DriftDirection(lfo_rate', lfo_direction, blk.lfo_range)
    /\ UNCHANGED <<params, stored, nwrites, epc, ldx, blk, frames, data,
                   phase1, phase2, lfo_phase, blkStart, nblocks>>

SpecLfo ==
    LfoInit /\ [][LfoDrift /\ UNCHANGED <<chanVars, scopeVars, widgetVars, appVars>>]_vars

---------------------------------------------------------------------------
(* find_trigger_point on its own: applied once to each buffer.             *)
InitTrig == ChanInit /\ EngInit /\ TrigInit /\ WidgetInit /\ AppInit

SpecTrig ==
    InitTrig /\ [][FindTrigger /\ UNCHANGED <<chanVars, engVars, widgetVars, appVars>>]_vars

---------------------------------------------------------------------------
(* The widget on its own: ingests and source replacements.                 *)
InitScope == ChanInit /\ EngInit /\ InitWidget /\ AppInit

SpecScope ==
    InitScope /\ [][NextWidget /\ UNCHANGED <<chanVars, engVars, appVars>>]_vars

---------------------------------------------------------------------------
(* The widget's animation frames on the channel: Scope::on_anim_frame      *)
(* polls the ScopeSource the widget holds, ingests what the poll returns   *)
(* and asks for the next frame, while the audio callback publishes.        *)

\* The clone of the ScopeSource in the widget's `source` field.
WidgetClone == 1

\* The ScopeBuffer of a poll as the widget reads it: the k-th sample of
\* the stream has the value Wave(k).
SamplesOf(s) == [i \in 1..Len(s) |-> Wave(s[i])]

\* The most snapshots the callback publishes.
MaxPublishes == MaxSamples \div SCOPE_SAMPLES

\* Mutant: the next frame is asked for only when the poll returned a buffer.
RequestWhenSome(res) == res.some

\* ctx.request_anim_frame() at the end of `if let Some(ref source)`:
\* whatever the poll returned.
RequestNext(res) == TRUE

\* The frame is delivered: on_anim_frame finds the source and poll takes
\* the lock.
AnimFrame ==
    /\ fpc = "idle"
    /\ anim_requested
    /\ source # 0
    /\ PollLock(WidgetClone)
    /\ fpc' = "poll"
    /\ anim_requested' = FALSE
    /\ frame_polls' = 1
    /\ UNCHANGED <<raw_buffer, trigger_threshold, trigger_pos, display_width,
                   display_points, generation, source, raw_from, last_ingest,
                   ningests, nsamples, view_state, last_rebuild, ingested>>

\* source.poll() goes on.
FramePoll ==
    /\ fpc = "poll"
    /\ \/ PollUpdated(WidgetClone)
       \/ PollSwap(WidgetClone)
       \/ PollPeek(WidgetClone)
       \/ PollClone(WidgetClone)
    /\ UNCHANGED <<scopeVars, widgetVars, animVars>>

\* The poll has returned: if let Some(buf) = .. { ingest_buffer(&buf) };
\* ctx.request_anim_frame();
FrameEnd ==
    /\ fpc = "poll"
    /\ cpc[WidgetClone] = "idle"
    /\ LET res == result[WidgetClone]
       IN /\ IF res.some
             THEN /\ IngestBuffer(SamplesOf(res.samples))
                  /\ ningests' = ningests + 1
                  /\ ingested' = ingested \cup {PubIndex(res.samples)}
             ELSE UNCHANGED <<raw_buffer, raw_from, trigger_pos, display_points,
                              generation, last_ingest, ningests, ingested>>
          /\ anim_requested' = RequestNext(res)
    /\ fpc' = "idle"
    /\ UNCHANGED <<trigger_threshold, display_width, source, nsamples,
                   view_state, last_rebuild, frame_polls>>
    /\ UNCHANGED chanVars

\* A rebuild hands the widget the source (between two frames).
FrameSetSource ==
    /\ fpc = "idle"
    /\ source = 0
    /\ Rebuild(1)
    /\ UNCHANGED <<chanVars, animVars>>

FrameStep == AnimFrame \/ FramePoll \/ FrameEnd

ProducerStep ==
    /\ \/ \E n \in BlockSizes : AudioBlock(n)
       \/ BufClear
       \/ BufExtend
       \/ Publish
       \/ Stop
    /\ UNCHANGED <<scopeVars, widgetVars, animVars>>

NextFrames ==
    \/ ProducerStep
    \/ AnimFrame
    \/ FramePoll
    \/ FrameEnd
    \/ FrameSetSource

\* The widget after View::build and the WidgetAdded update: Scope::update
\* asks for the first frame when the widget was built with a source.
InitFrames ==
    /\ ChanInit /\ EngInit /\ ScopeInit /\ AppInit
    /\ display_width = DISPLAY_WIDTH
    /\ display_points = Zeros(DISPLAY_WIDTH)
    /\ generation = 0
    /\ source \in {0, 1}
    /\ anim_requested = (source # 0)
    /\ raw_from = <<>>
    /\ last_ingest = NoIngest
    /\ ningests = 0
    /\ nsamples = 0
    /\ view_state = source
    /\ last_rebuild = NoRebuild

SpecFrames ==
    InitFrames
    /\ [][NextFrames /\ UNCHANGED <<engVars, idVars, handleVars, atomVars,
                                     buttonVars, faderVars, viewVars>>]_vars

\* masonry delivers every animation frame a widget in the tree asked for,
\* and the poll inside it is held up by nothing but other polls: the
\* widget's steps are weakly fair. The audio callback and the rebuilds
\* are not.
LiveFrames ==
    /\ SpecFrames
    /\ WF_vars(FrameStep /\ UNCHANGED <<engVars, idVars, handleVars, atomVars,
                                         buttonVars, faderVars, viewVars>>)

\* C21: while the widget holds a source the loop of animation frames
\* goes on (a frame is asked for, or one is running, and a frame polls
\* once), and under it every published snapshot is in the end ingested
\* by the widget or superseded by a newer publish.
C21_FramesDeliverSnapshots ==
    /\ [](source # 0 => (anim_requested \/ fpc = "poll") /\ frame_polls <= 1)
    /\ \A k \in 1..MaxPublishes :
           (source # 0 /\ Len(published) >= k)
               ~> (k \in ingested \/ Len(published) > k)

\* A frame has ended with the next one asked for, the second publish
\* ingested and the first one superseded before any frame polled it.
C21_Witness ==
    /\ fpc = "idle"
    /\ anim_requested
    /\ frame_polls = 1
    /\ 2 \in ingested
    /\ 1 \notin ingested

---------------------------------------------------------------------------
(* The ScopeSource ids on their own: threads racing in ScopeSource::new.   *)
InitIds == ChanInit /\ EngInit /\ ScopeInit /\ WidgetInit /\ AppInit

SpecIds ==
    InitIds
    /\ [][NextIds /\ UNCHANGED <<chanVars, engVars, scopeVars, widgetVars,
                                 handleVars, uiVars>>]_vars

---------------------------------------------------------------------------
(* DspHandle and DspEngine::start, examples/dsp.rs lines 154-239, called   *)
(* from the UI thread.  What the host, the device and the stream answer is *)
(* the environment's choice.  A cpal Stream may run its data callback from *)
(* the moment it is built (StreamTrait::play: not every platform starts a  *)
(* stream on creation, some do); dropping the Stream ends its callbacks.   *)

\* device_name: None (the default device) or a name.
DeviceNames == {"a", "b"}
Selections == {"default"} \cup DeviceNames

\* The Err strings of start, by the step that produced them.
StartErrors == {"output_devices", "Device not found",
                "No default output device", "default_output_config",
                "Unsupported sample format", "build_output_stream", "play"}

\* DspHandle::is_running
is_running(h) == h.stream # 0

\* Mutant: a stop that starts an idle handle's stream again.
stop_toggle(h) == [h EXCEPT !.stream = IF h.stream = 0 THEN 1 ELSE 0]

\* DspHandle::stop: self.stream = None
stop(h) == [h EXCEPT !.stream = 0]

\* Mutant: a Stream that outlives the value that owned it.
LeakStream(set, n) == set

\* Drop of the Stream of start call n (0: there is none).
DropStream(set, n) == set \ {n}

\* ScopeSource::new(scope_output) on the UI thread; `id` is what fetch_add
\* returned.
MadeSource(id) == [id |-> id, chan |-> nnew + 1, clone_of |-> 0]

\* DspHandle::new_idle(params) in DemoState::new
NewIdle ==
    /\ dsp = NoDsp
    /\ dsp' = [params |-> 1, scope_source |-> next_id, stream |-> 0]
    /\ next_id' = FetchAdd(next_id)
    /\ sources' = Append(sources, MadeSource(next_id))
    /\ nnew' = nnew + 1
    /\ UNCHANGED <<tnew, att, nstarts, results, live, playing, cbCount, stopLog>>
    /\ UNCHANGED <<chanVars, engVars>>

\* handle.stop()
StopHandle ==
    /\ dsp # NoDsp
    /\ att.pc = "idle"
    /\ Len(stopLog) < MaxStops
    /\ dsp' = stop(dsp)
    /\ live' = DropStream(live, dsp.stream)
    /\ playing' = DropStream(playing, dsp.stream)
    /\ stopLog' = Append(stopLog, [before |-> dsp, after |-> dsp'])
    /\ UNCHANGED <<idVars, att, nstarts, results, cbCount>>
    /\ UNCHANGED <<chanVars, engVars>>

\* DspEngine::start(device_name, Arc::clone(&dsp.params)) is called.
StartBegin(sel) ==
    /\ dsp # NoDsp
    /\ att.pc = "idle"
    /\ nstarts < MaxStarts
    /\ nstarts' = nstarts + 1
    /\ att' = [pc |-> "device", n |-> nstarts + 1, sel |-> sel,
               params0 |-> params, dsp0 |-> dsp]
    /\ UNCHANGED <<idVars, dsp, results, live, playing, cbCount, stopLog>>
    /\ UNCHANGED <<chanVars, engVars>>

\* start returns Err(err) through `?` or `return Err`: its locals, the
\* Stream among them, are dropped.
StartFail(err) ==
    /\ results' = Append(results,
                         [n |-> att.n, ok |-> FALSE, err |-> err,
                          cbs |-> cbCount[att.n],
                          params0 |-> att.params0, params1 |-> params,
                          dsp0 |-> att.dsp0, dsp1 |-> dsp])
    /\ live' = DropStream(live, att.n)
    /\ att' = NoAttempt
    /\ UNCHANGED <<idVars, dsp, nstarts, playing, cbCount, stopLog>>
    /\ UNCHANGED <<chanVars, engVars>>

\* The start call goes on to its next step.
StartGoes(pc) ==
    /\ att' = [att EXCEPT !.pc = pc]
    /\ UNCHANGED <<idVars, dsp, nstarts, results, live, playing, cbCount,
                   stopLog>>
    /\ UNCHANGED <<chanVars, engVars>>

\* let device = ..: the named device among output_devices(), or
\* default_output_device().
StartDevice ==
    /\ att.pc = "device"
    /\ \/ StartGoes("config")
       \/ /\ att.sel = "default"
          /\ StartFail("No default output device")
       \/ /\ att.sel # "default"
          /\ \E err \in {"output_devices", "Device not found"} : StartFail(err)

\* device.default_output_config()
StartConfig ==
    /\ att.pc = "config"
    /\ \/ StartGoes("format")
       \/ StartFail("default_output_config")

\* match sample_format: one of the eight formats, or any other
StartFormat ==
    /\ att.pc = "format"
    /\ \/ StartGoes("build")
       \/ StartFail("Unsupported sample format")

\* Self::make_stream::<S>(..).map_err(..)?: device.build_output_stream
StartBuild ==
    /\ att.pc = "build"
    /\ \/ /\ att' = [att EXCEPT !.pc = "play"]
          /\ live' = live \cup {att.n}
          /\ UNCHANGED <<idVars, dsp, nstarts, results, playing, cbCount,
                         stopLog>>
          /\ UNCHANGED <<chanVars, engVars>>
       \/ StartFail("build_output_stream")

\* stream.play().map_err(..)?
StartPlay ==
    /\ att.pc = "play"
    /\ \/ /\ att' = [att EXCEPT !.pc = "ok"]
          /\ playing' = playing \cup {att.n}
          /\ UNCHANGED <<idVars, dsp, nstarts, results, live, cbCount,
                         stopLog>>
          /\ UNCHANGED <<chanVars, engVars>>
       \/ StartFail("play")

\* Ok(DspHandle { params, scope_source: ScopeSource::new(..), stream }),
\* and the caller's `dsp = handle`, which drops the handle it held.
StartOk ==
    /\ att.pc = "ok"
    /\ dsp' = [params |-> dsp.params, scope_source |-> next_id,
               stream |-> att.n]
    /\ next_id' = FetchAdd(next_id)
    /\ sources' = Append(sources, MadeSource(next_id))
    /\ nnew' = nnew + 1
    /\ results' = Append(results,
                         [n |-> att.n, ok |-> TRUE, err |-> "",
                          cbs |-> cbCount[att.n],
                          params0 |-> att.params0, params1 |-> params,
                          dsp0 |-> att.dsp0, dsp1 |-> dsp'])
    /\ live' = DropStream(live, dsp.stream)
    /\ playing' = DropStream(playing, dsp.stream)
    /\ att' = NoAttempt
    /\ UNCHANGED <<tnew, nstarts, cbCount, stopLog>>
    /\ UNCHANGED <<chanVars, engVars>>

\* One run of the data callback of the Stream of start call n, on the
\* audio thread: it loads the parameters and stores none.
StreamCallback(n) ==
    /\ n \in live
    /\ cbCount[n] < MaxCallbacks
    /\ cbCount' = [cbCount EXCEPT ![n] = @ + 1]
    /\ UNCHANGED <<idVars, dsp, att, nstarts, results, live, playing, stopLog>>
    /\ UNCHANGED <<chanVars, engVars>>

\* The UI thread stores a parameter (set_mute here); it is not inside
\* start when it does.
UiStore ==
    /\ att.pc = "idle"
    /\ \E v \in StoreValues("mute") : Store("mute", v)
    /\ UNCHANGED appVars

NextHandle ==
    \/ NewIdle
    \/ StopHandle
    \/ \E sel \in Selections : StartBegin(sel)
    \/ StartDevice
    \/ StartConfig
    \/ StartFormat
    \/ StartBuild
    \/ StartPlay
    \/ StartOk
    \/ \E n \in 1..MaxStarts : StreamCallback(n)
    \/ UiStore

InitHandle == ChanInit /\ EngInit /\ ScopeInit /\ WidgetInit /\ AppInit

SpecHandle ==
    InitHandle
    /\ [][NextHandle /\ UNCHANGED <<scopeVars, widgetVars, uiVars>>]_vars

---------------------------------------------------------------------------
(* AtomicF32 and the boolean fields of SharedParams, examples/dsp.rs       *)
(* lines 66-125.  Every access is one atomic operation on one cell.        *)

\* AtomicF32::store(v): self.0.store(v.to_bits(), Relaxed)
AtomicStore(v) ==
    /\ abits' = to_bits(v)
    /\ astored' = v
    /\ aloaded' = NotLoaded
    /\ UNCHANGED <<bcell, bset, bgot>>

\* AtomicF32::load(): f32::from_bits(self.0.load(Relaxed))
AtomicLoad ==
    /\ aloaded' = [valid |-> TRUE, v |-> from_bits(abits)]
    /\ UNCHANGED <<abits, astored, bcell, bset, bgot>>

\* self.mute.load(Relaxed) != 0
NonZero(cell) == cell # 0

\* SharedParams::set_mute(v) / set_lfo_enabled(v)
SetBool(f, b) ==
    /\ bcell' = [bcell EXCEPT ![f] = BoolAsU32(b)]
    /\ bset' = [bset EXCEPT ![f] = b]
    /\ bgot' = NotGot
    /\ UNCHANGED <<abits, astored, aloaded>>

\* SharedParams::muted() / lfo_enabled()
GetBool(f) ==
    /\ bgot' = [valid |-> TRUE, field |-> f, b |-> NonZero(bcell[f])]
    /\ UNCHANGED <<abits, astored, aloaded, bcell, bset>>

NextAtom ==
    \/ \E v \in F32 : AtomicStore(v)
    \/ AtomicLoad
    \/ \E f \in BoolFields : \E b \in BOOLEAN : SetBool(f, b)
    \/ \E f \in BoolFields : GetBool(f)

InitAtom == ChanInit /\ EngInit /\ ScopeInit /\ WidgetInit /\ AppInit

SpecAtom ==
    InitAtom
    /\ [][NextAtom /\ UNCHANGED <<chanVars, engVars, scopeVars, widgetVars,
                                  idVars, handleVars, buttonVars, faderVars,
                                  animVars, viewVars>>]_vars

---------------------------------------------------------------------------
(* The PushButton widget, src/widgets/push_button.rs lines 24-86.  The     *)
(* toolkit delivers the pointer events, tells the widget whether it has    *)
(* the pointer capture (is_active), is hovered and is disabled; a widget   *)
(* that becomes disabled loses the pointer capture.                        *)

\* What a pointer event did: the record of the event.
Outcome(ev, active1, emitted) ==
    [ev |-> ev, active0 |-> pb_active, captured0 |-> pb_captured,
     hovered0 |-> pb_hovered, disabled0 |-> pb_disabled, active1 |-> active1,
     emitted |-> emitted]

\* Mutant: a click that always switches the button on.
SwitchOn(a) == TRUE

\* self.active = !self.active
Toggle(a) == ~a

\* PointerEvent::Down: capture_pointer, request_render
PbDown ==
    /\ pb_clicks < MaxClicks
    /\ pb_captured' = (pb_captured \/ ~pb_disabled)
    /\ pb_last' = Outcome("Down", pb_active, <<>>)
    /\ UNCHANGED <<pb_active, pb_hovered, pb_disabled, pb_clicks>>

\* PointerEvent::Up
PbUp ==
    /\ pb_clicks < MaxClicks
    /\ IF ~pb_disabled /\ pb_captured /\ pb_hovered
       THEN /\ pb_active' = Toggle(pb_active)
            /\ pb_last' = Outcome("Up", pb_active', <<pb_active'>>)
            /\ pb_clicks' = pb_clicks + 1
       ELSE /\ pb_last' = Outcome("Up", pb_active, <<>>)
            /\ UNCHANGED <<pb_active, pb_clicks>>
    /\ pb_captured' = FALSE
    /\ UNCHANGED <<pb_hovered, pb_disabled>>

\* Any other pointer event (`_ => {}`): a Move or Leave that takes the
\* pointer onto or off the button, a Scroll, a Cancel that ends the
\* capture.
OtherEvents == {"Move", "Leave", "Scroll", "Cancel"}

PbOther(ev, hov) ==
    /\ pb_clicks < MaxClicks
    /\ pb_hovered' = CASE ev = "Move" -> hov
                        [] ev = "Leave" -> FALSE
                        [] OTHER -> pb_hovered
    /\ pb_captured' = (pb_captured /\ ev # "Cancel")
    /\ pb_last' = Outcome(ev, pb_active, <<>>)
    /\ UNCHANGED <<pb_active, pb_disabled, pb_clicks>>

\* The widget is disabled or enabled again by the application.
PbSetDisabled(d) ==
    /\ pb_disabled' = d
    /\ pb_captured' = (pb_captured /\ ~d)
    /\ UNCHANGED <<pb_active, pb_hovered, pb_last, pb_clicks>>

\* PushButton::set_active, from the view's rebuild
PbSetActive(a) ==
    /\ pb_active' = a
    /\ UNCHANGED <<pb_captured, pb_hovered, pb_disabled, pb_last, pb_clicks>>

NextButton ==
    \/ PbDown
    \/ PbUp
    \/ \E ev \in OtherEvents : \E hov \in BOOLEAN : PbOther(ev, hov)
    \/ \E d \in BOOLEAN : PbSetDisabled(d)
    \/ \E a \in BOOLEAN : PbSetActive(a)

InitButton == ChanInit /\ EngInit /\ ScopeInit /\ WidgetInit /\ AppInit

SpecButton ==
    InitButton
    /\ [][NextButton /\ UNCHANGED <<chanVars, engVars, scopeVars, widgetVars,
                                    idVars, handleVars, atomVars, faderVars,
                                    animVars, viewVars>>]_vars

---------------------------------------------------------------------------
(* The push_button view over the widget, src/views/push_button.rs, with    *)
(* the callback of the demo's start button, examples/demo.rs lines         *)
(* 107-125.  The driver hands the action the widget submitted to the       *)
(* view's message, which runs on_toggle, and rebuilds the view from the    *)
(* application state before the next event.                                *)

\* audio_started after the start button's callback ran with v: a start
\* succeeds or fails, a stop leaves it false.
StartButtonStates(v) == IF v THEN {TRUE, FALSE} ELSE {FALSE}

\* A pointer event or a disabling while no action waits.
PbEvent ==
    /\ pb_pending = <<>>
    /\ \/ PbDown
       \/ \E ev \in OtherEvents : \E hov \in BOOLEAN : PbOther(ev, hov)
       \/ \E d \in BOOLEAN : PbSetDisabled(d)
    /\ UNCHANGED pbViewVars

\* PointerEvent::Up; ctx.submit_action::<bool>(self.active) leaves the
\* action for the view.
PbUpSubmit ==
    /\ pb_pending = <<>>
    /\ PbUp
    /\ pb_pending' = pb_last'.emitted
    /\ UNCHANGED pb_view

\* View::message runs on_toggle(state, v); then View::rebuild with the
\* view made from the new state:
\* if prev.active != self.active { set_active(self.active) }
PbMessage(started) ==
    /\ pb_pending # <<>>
    /\ started \in StartButtonStates(pb_pending[1])
    /\ IF pb_view # started
       THEN PbSetActive(started)
       ELSE UNCHANGED buttonVars
    /\ pb_view' = started
    /\ pb_pending' = <<>>

NextButtonView ==
    \/ PbEvent
    \/ PbUpSubmit
    \/ \E started \in BOOLEAN : PbMessage(started)

SpecButtonView ==
    InitButton
    /\ [][NextButtonView /\ UNCHANGED <<chanVars, engVars, scopeVars, widgetVars,
                                        idVars, handleVars, atomVars, faderVars,
                                        animVars, psVars, knobVars,
                                        demoVars>>]_vars

---------------------------------------------------------------------------
(* The ParamSelector widget and the param_selector view,                   *)
(* src/widgets/param_selector.rs lines 42-86 and 122-137,                  *)
(* src/views/param_selector.rs lines 63-90.                                *)

\* The label lists and the indexes the application passes.
LabelLists == {<<>>, <<"a">>, <<"a", "b">>, <<"a", "b", "c">>, <<"c", "b", "a">>,
               <<"a", "b", "c", "d">>}
SelectedValues == 0..3

\* ParamSelector::set_selected
PsSetSelected(labels, selected) ==
    Min(selected, SatSub(Len(labels), 1))

\* ParamSelector::set_labels: count and labels are replaced, selected is
\* clamped to the new count.
PsSetLabels(sel, labels) == Min(sel, SatSub(Len(labels), 1))

\* View::build: a new widget from ParamSelector::new
PsBuild(labels, selected) ==
    /\ ps_view' = [labels |-> labels, selected |-> selected]
    /\ ps_labels' = labels
    /\ ps_selected' = NewSelected(labels, selected)
    /\ ps_last' = "build"

\* View::rebuild with the view (labels, selected): set_selected when the
\* index differs from the previous view's, then set_labels when the
\* labels differ.
PsRebuild(labels, selected) ==
    LET sel1 == IF ps_view.selected # selected
                THEN PsSetSelected(ps_labels, selected)
                ELSE ps_selected
        changed == ps_view.labels # labels
    IN /\ ps_selected' = IF changed THEN PsSetLabels(sel1, labels) ELSE sel1
       /\ ps_labels' = IF changed THEN labels ELSE ps_labels
       /\ ps_view' = [labels |-> labels, selected |-> selected]
       /\ ps_last' = "rebuild"

\* PointerEvent::Up on row idx (hit_test finds the rows 0..count-1):
\* the widget selects the row.
PsUp(idx) ==
    /\ idx < Len(ps_labels)
    /\ ps_selected' = idx
    /\ ps_last' = "up"
    /\ UNCHANGED <<ps_labels, ps_view>>

NextSelector ==
    \/ \E labels \in LabelLists : \E selected \in SelectedValues :
          PsBuild(labels, selected)
    \/ \E labels \in LabelLists : \E selected \in SelectedValues :
          PsRebuild(labels, selected)
    \/ \E idx \in SelectedValues : PsUp(idx)

SpecSelector ==
    InitButton
    /\ [][NextSelector /\ UNCHANGED <<chanVars, engVars, scopeVars, widgetVars,
                                      idVars, handleVars, atomVars, buttonVars,
                                      faderVars, animVars, pbViewVars,
                                      knobVars, demoVars>>]_vars

---------------------------------------------------------------------------
(* The Knob widget and the knob view, src/widgets/knob.rs lines 47-163,    *)
(* src/views/knob.rs lines 63-83.  Values are whole units; the pointer's   *)
(* y is in units of 50 pixels, so that dy * sensitivity is a quarter of    *)
(* the range for each unit, and the ranges are multiples of four.          *)

\* The values, ranges (min <= max), steps and pointer positions of the
\* model.
KnobValues == {0, 4, 8}
KnobRanges == {<<0, 8>>, <<0, 4>>, <<4, 8>>, <<4, 4>>}
KnobSteps == {0, 4}
KnobYs == 0..4

\* f64::round of a / b for b > 0: halves go away from zero.
RoundDiv(a, b) ==
    IF a >= 0 THEN (2 * a + b) \div (2 * b) ELSE -((2 * (-a) + b) \div (2 * b))

\* Knob::quantize
quantize(val) ==
    IF kn_step > 0
    THEN ClampTo(kn_min + RoundDiv(val - kn_min, kn_step) * kn_step, kn_min, kn_max)
    ELSE ClampTo(val, kn_min, kn_max)

\* Knob::set_value: the value clamped to the widget's range
KnSetValue(cur, min, max, value) == ClampTo(value, min, max)

\* Knob::set_range: the value is clamped to the new range (the default
\* is not).
KnSetRange(cur, min, max) == ClampTo(cur, min, max)

\* View::build: a new widget
KnBuild(min, max, value, default, step) ==
    /\ kn_value' = ClampTo(value, min, max)
    /\ kn_min' = min
    /\ kn_max' = max
    /\ kn_default' = ClampTo(default, min, max)
    /\ kn_step' = step
    /\ kn_drag_start_y' = <<>>
    /\ kn_drag_start_value' = 0
    /\ kn_captured' = FALSE
    /\ kn_view' = [min |-> min, max |-> max, value |-> value]
    /\ kn_last' = [ev |-> "build", emitted |-> <<>>]

\* View::rebuild with the view (min, max, value): set_value when the value
\* differs from the previous view's, then set_range when the range does.
KnRebuild(min, max, value) ==
    LET v1 == IF kn_view.value # value
              THEN KnSetValue(kn_value, kn_min, kn_max, value)
              ELSE kn_value
        changed == kn_view.min # min \/ kn_view.max # max
    IN /\ kn_value' = IF changed THEN KnSetRange(v1, min, max) ELSE v1
       /\ kn_min' = IF changed THEN min ELSE kn_min
       /\ kn_max' = IF changed THEN max ELSE kn_max
       /\ kn_view' = [min |-> min, max |-> max, value |-> value]
       /\ kn_last' = [ev |-> "rebuild", emitted |-> <<>>]
       /\ UNCHANGED <<kn_default, kn_step, kn_drag_start_y, kn_drag_start_value,
                      kn_captured>>

\* PointerEvent::Down with click count `count` at y
KnDown(count, y) ==
    /\ IF count = 2
       THEN /\ kn_value' = kn_default
            /\ kn_last' = [ev |-> "Down2", emitted |-> <<kn_default>>]
            /\ UNCHANGED <<kn_captured, kn_drag_start_y, kn_drag_start_value>>
       ELSE /\ kn_captured' = TRUE
            /\ kn_drag_start_y' = <<y>>
            /\ kn_drag_start_value' = kn_value
            /\ kn_last' = [ev |-> "Down", emitted |-> <<>>]
            /\ UNCHANGED kn_value
    /\ UNCHANGED <<kn_min, kn_max, kn_default, kn_step, kn_view>>

\* PointerEvent::Move to y
KnMove(y) ==
    /\ IF kn_captured /\ kn_drag_start_y # <<>>
       THEN LET dy == kn_drag_start_y[1] - y
                range == kn_max - kn_min
                new_val == quantize(kn_drag_start_value + (dy * range) \div 4)
            IN IF kn_value # new_val
               THEN /\ kn_value' = new_val
                    /\ kn_last' = [ev |-> "Move", emitted |-> <<new_val>>]
               ELSE /\ kn_last' = [ev |-> "Move", emitted |-> <<>>]
                    /\ UNCHANGED kn_value
       ELSE /\ kn_last' = [ev |-> "Move", emitted |-> <<>>]
            /\ UNCHANGED kn_value
    /\ UNCHANGED <<kn_min, kn_max, kn_default, kn_step, kn_drag_start_y,
                   kn_drag_start_value, kn_captured, kn_view>>

\* PointerEvent::Up
KnUp ==
    /\ IF kn_captured
       THEN /\ kn_captured' = FALSE
            /\ kn_drag_start_y' = <<>>
       ELSE UNCHANGED <<kn_captured, kn_drag_start_y>>
    /\ kn_last' = [ev |-> "Up", emitted |-> <<>>]
    /\ UNCHANGED <<kn_value, kn_min, kn_max, kn_default, kn_step,
                   kn_drag_start_value, kn_view>>

NextKnob ==
    \/ \E r \in KnobRanges : \E v, d \in KnobValues : \E st \in KnobSteps :
          KnBuild(r[1], r[2], v, d, st)
    \/ \E r \in KnobRanges : \E v \in KnobValues : KnRebuild(r[1], r[2], v)
    \/ \E count \in {1, 2} : \E y \in KnobYs : KnDown(count, y)
    \/ \E y \in KnobYs : KnMove(y)
    \/ KnUp

SpecKnob ==
    InitButton
    /\ [][NextKnob /\ UNCHANGED <<chanVars, engVars, scopeVars, widgetVars,
                                  idVars, handleVars, atomVars, buttonVars,
                                  faderVars, animVars, pbViewVars, psVars,
                                  demoVars>>]_vars

---------------------------------------------------------------------------
(* The demo's audio callbacks, examples/demo.rs lines 86-125: the device   *)
(* selector's on_change and the start button's on_toggle, each followed by *)
(* the rebuild of the push_button view from audio_started.  A callback     *)
(* runs on the UI thread from start to end; DspEngine::start inside it     *)
(* returns Ok or Err.                                                      *)

\* The indexes of the device list.
DeviceIndexes == {0, 1}

\* Mutant: a failed restart leaves audio_started as it was.
RestartFailedKeeps(started) == started

\* Err(e) => { eprintln!(..); s.audio_started = false; } in the selector
RestartFailed(started) == FALSE

\* DspEngine::start returned Ok(handle) and `s.dsp = handle` ran: the
\* handle the demo held is dropped and its stream with it.
DemoAssignHandle(h) ==
    /\ nstarts' = nstarts + 1
    /\ dsp' = [params |-> h.params, scope_source |-> next_id,
               stream |-> nstarts + 1]
    /\ next_id' = FetchAdd(next_id)
    /\ sources' = Append(sources, MadeSource(next_id))
    /\ nnew' = nnew + 1
    /\ live' = DropStream(live, h.stream) \cup {nstarts + 1}
    /\ playing' = DropStream(playing, h.stream) \cup {nstarts + 1}
    /\ UNCHANGED tnew

\* DspEngine::start returned Err: the handle the demo holds is h.
DemoKeepHandle(h) ==
    /\ nstarts' = nstarts + 1
    /\ dsp' = h
    /\ live' = DropStream(live, dsp.stream) \cup (IF is_running(h) THEN {h.stream} ELSE {})
    /\ playing' = DropStream(playing, dsp.stream) \cup (IF is_running(h) THEN {h.stream} ELSE {})
    /\ UNCHANGED idVars

\* The rebuild of the push_button view with active = started.
DemoRebuild(started) ==
    /\ IF pb_view # started
       THEN PbSetActive(started)
       ELSE UNCHANGED buttonVars
    /\ pb_view' = started

\* The start button's on_toggle(s, v), then the rebuild.
DemoToggled(ok) ==
    /\ dsp # NoDsp
    /\ pb_pending # <<>>
    /\ LET v == pb_pending[1]
       IN /\ IF v
             THEN /\ nstarts < MaxStarts
                  /\ IF ok THEN DemoAssignHandle(dsp) ELSE DemoKeepHandle(dsp)
                  /\ audio_started' = ok
             ELSE /\ ok
                  /\ dsp' = stop(dsp)
                  /\ live' = DropStream(live, dsp.stream)
                  /\ playing' = DropStream(playing, dsp.stream)
                  /\ audio_started' = FALSE
                  /\ UNCHANGED <<idVars, nstarts>>
          /\ demo_last' = [cb |-> "toggle", v |-> v, started |-> v, ok |-> ok]
    /\ DemoRebuild(audio_started')
    /\ pb_pending' = <<>>
    /\ UNCHANGED <<selected_device, att, results, cbCount, stopLog>>

\* The device selector's on_change(s, idx), then the rebuild.
DemoSelected(idx, ok) ==
    /\ dsp # NoDsp
    /\ pb_pending = <<>>
    /\ selected_device' = idx
    /\ IF audio_started
       THEN /\ nstarts < MaxStarts
            /\ IF ok
               THEN /\ DemoAssignHandle(stop(dsp))
                    /\ audio_started' = audio_started
               ELSE /\ DemoKeepHandle(stop(dsp))
                    /\ audio_started' = RestartFailed(audio_started)
       ELSE /\ ok
            /\ UNCHANGED <<idVars, dsp, nstarts, live, playing, audio_started>>
    /\ demo_last' = [cb |-> "select", v |-> FALSE, started |-> audio_started,
                     ok |-> ok]
    /\ DemoRebuild(audio_started')
    /\ UNCHANGED <<pb_pending, att, results, cbCount, stopLog>>

\* DemoState::new
DemoNew ==
    /\ NewIdle
    /\ UNCHANGED <<buttonVars, pbViewVars, demoVars>>

\* Pointer events on the start button.
DemoPointer ==
    /\ dsp # NoDsp
    /\ PbEvent \/ PbUpSubmit
    /\ UNCHANGED <<idVars, handleVars, demoVars>>

NextDemo ==
    \/ DemoNew
    \/ DemoPointer
    \/ \E ok \in BOOLEAN : DemoToggled(ok)
    \/ \E idx \in DeviceIndexes : \E ok \in BOOLEAN : DemoSelected(idx, ok)

SpecDemo ==
    InitButton
    /\ [][NextDemo /\ UNCHANGED <<chanVars, engVars, scopeVars, widgetVars,
                                  atomVars, faderVars, animVars, psVars,
                                  knobVars>>]_vars

---------------------------------------------------------------------------
(* The Fader widget, src/widgets/fader.rs lines 38-174.  Values are in dB, *)
(* the pointer's y runs down the track in quarters of its length.  The     *)
(* toolkit delivers pointer events to a widget that is not disabled.       *)

\* The dB values the application passes, and the ranges it sets.
DbValues == {-4, -2, 0, 2, 4}
DbRanges == {<<-4, 4>>, <<-4, 0>>, <<0, 4>>, <<0, 0>>}

\* The pointer positions along the track, top to bottom.
TrackYs == 0..4

\* Fader::current_db
current_db(value) == normalized_to_db(value, fd_min_db, fd_max_db)

\* What a pointer event did: the record of the event.
FaderOutcome(ev, count, emitted, captured1, drag1, value1) ==
    [ev |-> ev, count |-> count, emitted |-> emitted,
     captured0 |-> fd_captured, captured1 |-> captured1,
     drag0 |-> fd_drag_start_y, drag1 |-> drag1,
     db1 |-> current_db(value1), default_db |-> fd_default_db]

\* PointerEvent::Down with click count `count` at y
FdDown(count, y) ==
    /\ IF count = 2
       THEN /\ fd_value' = db_to_normalized(fd_default_db, fd_min_db, fd_max_db)
            /\ UNCHANGED <<fd_captured, fd_drag_start_y, fd_drag_start_value>>
            /\ fd_last' = FaderOutcome("Down", count, <<fd_default_db>>,
                                       fd_captured, fd_drag_start_y, fd_value')
       ELSE /\ fd_captured' = TRUE
            /\ fd_drag_start_y' = <<y>>
            /\ fd_drag_start_value' = fd_value
            /\ UNCHANGED fd_value
            /\ fd_last' = FaderOutcome("Down", count, <<>>, TRUE, <<y>>, fd_value)
    /\ UNCHANGED <<fd_min_db, fd_max_db, fd_default_db>>

\* let delta = dy / range; (drag_start_value + delta).clamp(0.0, 1.0)
DragValue(start_value, start_y, y) ==
    ClampTo(start_value + TDiv((start_y - y) * ONE, 4), 0, ONE)

\* PointerEvent::Move to y
FdMove(y) ==
    /\ IF fd_captured /\ fd_drag_start_y # <<>>
          /\ DragValue(fd_drag_start_value, fd_drag_start_y[1], y) # fd_value
       THEN /\ fd_value' = DragValue(fd_drag_start_value, fd_drag_start_y[1], y)
            /\ fd_last' = FaderOutcome("Move", 0, <<current_db(fd_value')>>,
                                       fd_captured, fd_drag_start_y, fd_value')
       ELSE /\ UNCHANGED fd_value
            /\ fd_last' = FaderOutcome("Move", 0, <<>>, fd_captured,
                                       fd_drag_start_y, fd_value)
    /\ UNCHANGED <<fd_min_db, fd_max_db, fd_default_db, fd_drag_start_y,
                   fd_drag_start_value, fd_captured>>

\* PointerEvent::Up
FdUp ==
    /\ fd_captured' = FALSE
    /\ fd_drag_start_y' = IF fd_captured THEN <<>> ELSE fd_drag_start_y
    /\ fd_last' = FaderOutcome("Up", 0, <<>>, FALSE, fd_drag_start_y', fd_value)
    /\ UNCHANGED <<fd_value, fd_min_db, fd_max_db, fd_default_db,
                   fd_drag_start_value>>

\* Fader::set_value_db
FdSetValueDb(value_db) ==
    /\ fd_value' = db_to_normalized(value_db, fd_min_db, fd_max_db)
    /\ UNCHANGED <<fd_min_db, fd_max_db, fd_default_db, fd_drag_start_y,
                   fd_drag_start_value, fd_captured, fd_last>>

\* Fader::set_range
FdSetRange(min_db, max_db) ==
    /\ fd_min_db' = min_db
    /\ fd_max_db' = max_db
    /\ UNCHANGED <<fd_value, fd_default_db, fd_drag_start_y,
                   fd_drag_start_value, fd_captured, fd_last>>

NextFader ==
    \/ \E count \in 1..2 : \E y \in TrackYs : FdDown(count, y)
    \/ \E y \in TrackYs : FdMove(y)
    \/ FdUp
    \/ \E db \in DbValues : FdSetValueDb(db)
    \/ \E r \in DbRanges : FdSetRange(r[1], r[2])

InitFader == ChanInit /\ EngInit /\ ScopeInit /\ WidgetInit /\ AppInit

SpecFader ==
    InitFader
    /\ [][NextFader /\ UNCHANGED <<chanVars, engVars, scopeVars, widgetVars,
                                   idVars, handleVars, atomVars, buttonVars,
                                   animVars, viewVars>>]_vars

---------------------------------------------------------------------------
(* Claims about the scope publish channel, checked under SpecChan.         *)

\* A complete publish: SCOPE_SAMPLES consecutive samples of the stream,
\* equal to what the producer had in its input buffer at a publish call.
IsPublish(s) ==
    /\ PubIndex(s) > 0
    /\ Len(s) = SCOPE_SAMPLES
    /\ \A k \in 1..(Len(s) - 1) : s[k + 1] = s[k] + 1

\* C1: every snapshot a poll has returned, and every snapshot a caller
\* still holds however many publishes came later, is sample for sample the
\* contents of the input buffer at one publish call (never a buffer under
\* construction, never a mix of two publishes); the buffer poll reads is
\* never the one the producer writes.
C1_SnapshotIsOnePublish ==
    /\ \A k \in 1..Len(returns) : IsPublish(returns[k])
    /\ \A c \in Clones : result[c].some => IsPublish(result[c].samples)
    /\ \A c \in Clones : cpc[c] \in {"peek", "clone"} => PeekIdx # input_idx

\* C1 witness: a clone holds a returned snapshot while the producer, two
\* publishes later, is in the middle of writing its input buffer.
C1_Witness ==
    /\ apc = "extend"
    /\ Len(published) >= 2
    /\ \E c \in Clones : result[c].some /\ PubIndex(result[c].samples) = 1

\* C2: a poll during which nothing is published returns the latest
\* published buffer if no poll has returned it yet, and None if it has
\* already been returned (or nothing was ever published): a snapshot is
\* reported as new at most once.
C2_NewAtMostOnce ==
    (lastPoll.valid /\ lastPoll.lockPub = lastPoll.retPub) =>
        IF lastPoll.lockPub > lastPoll.prevReturns
        THEN lastPoll.res = SomeRes(published[lastPoll.lockPub])
        ELSE lastPoll.res = NoneRes

\* C2 witness: a poll after a publish that an earlier poll had already
\* returned, with no publish in between, returned None.
C2_Witness ==
    /\ lastPoll.valid
    /\ lastPoll.lockPub = lastPoll.retPub
    /\ lastPoll.lockPub >= 1
    /\ lastPoll.prevReturns = lastPoll.lockPub
    /\ lastPoll.res = NoneRes

\* C3: the snapshots polls return are strictly newer each time (none is
\* returned twice, none older than one already returned), a returned
\* snapshot is never older than the newest publish made before the poll
\* began, and with no publish during the poll it is exactly the newest:
\* the publishes it supersedes are never returned.
C3_NewestWins ==
    /\ \A k \in 1..(Len(returns) - 1) :
          PubIndex(returns[k]) < PubIndex(returns[k + 1])
    /\ (lastPoll.valid /\ lastPoll.res.some) =>
          /\ PubIndex(lastPoll.res.samples) >= lastPoll.lockPub
          /\ PubIndex(lastPoll.res.samples) <= lastPoll.retPub
          /\ PubIndex(lastPoll.res.samples) > lastPoll.prevReturns

\* C3 witness: two publishes with no poll in between, then a poll that
\* returned the second.
C3_Witness ==
    /\ lastPoll.valid
    /\ lastPoll.res.some
    /\ lastPoll.lockPub = lastPoll.retPub
    /\ lastPoll.lockPub >= lastPoll.prevReturns + 2
    /\ lastPoll.res.samples = published[lastPoll.lockPub]

\* C4: whatever the consumers are doing, the producer's next step is
\* enabled: the callback can run its frame loop, clear and fill its
\* input buffer and publish without waiting for any consumer state.
C4_ProducerNeverWaits ==
    /\ (apc = "idle" /\ produced < MaxSamples) => ENABLED AudioBlock(1)
    /\ apc = "clear" => ENABLED BufClear
    /\ apc = "extend" => ENABLED BufExtend
    /\ apc = "publish" => ENABLED Publish

\* C4 witness: the producer is about to publish while one clone holds the
\* Mutex in the middle of its poll and the other clone has been dropped.
C4_Witness ==
    /\ apc = "publish"
    /\ \E c \in Clones : mutex = c /\ cpc[c] = "clone"
    /\ \E c \in Clones : cpc[c] = "dropped"
\* C17 (amended): of the polls begun after the stream was stopped, only
\* the first can return a snapshot, and if it does it is the last
\* snapshot published before the stop, one no earlier poll had returned;
\* every later poll returns None.
C17_NoneAfterFirstPoll ==
    /\ \A k \in 2..Len(stopPolls) : ~stopPolls[k].some
    /\ (stopPolls # <<>> /\ stopPolls[1].some) =>
          /\ stopPolls[1].samples = published[Len(published)]
          /\ \A k \in 1..(Len(returns) - 1) : returns[k] # stopPolls[1].samples

\* C17 witness: a publish no poll had taken, the stop, then a poll that
\* returned that snapshot and a later poll that returned None.
C17_Witness ==
    /\ apc = "stopped"
    /\ Len(stopPolls) >= 2
    /\ stopPolls[1].some
    /\ ~stopPolls[2].some

\* C17 (as claimed): no poll begun after the stop returns a snapshot.
C17_NoSnapshotAfterStop ==
    \A k \in 1..Len(stopPolls) : ~stopPolls[k].some
\* C20 (as claimed): the audio callback never needs to allocate: the
\* accumulator never holds more than the SCOPE_SAMPLES it was created
\* with room for, and whenever the callback is about to fill the input
\* buffer that buffer already has room for SCOPE_SAMPLES samples.
C20_CallbackNeverAllocates ==
    /\ Len(scope_accum) <= SCOPE_SAMPLES
    /\ accum_cap = SCOPE_SAMPLES
    /\ apc = "clear" => buf_cap[input_idx] >= SCOPE_SAMPLES

\* C26 (as claimed): what is published is the whole accumulator, and the
\* published snapshots one after the other are the engine's sample stream
\* from its first sample on, with no produced sample left out.
C26_NoSampleSkipped ==
    /\ apc = "publish" => buffers[input_idx] = scope_accum
    /\ \A i \in 1..Len(published) : \A j \in 1..Len(published[i]) :
          published[i][j] = (i - 1) * SCOPE_SAMPLES + j

---------------------------------------------------------------------------
(* Claims about the parameter reads and the frame loop.                    *)

\* C5: the samples a callback has written so far are the ones computed,
\* frame after frame, from the parameter values its loads returned at the
\* start of the callback, whatever the UI thread has stored since; the
\* callback's locals do not change during the frame loop.
C5_BlockUsesStartParams ==
    epc \in {"frame", "publish"} =>
        /\ data = RunFrames(blkStart.blk, blkStart.osc, Len(data))
        /\ blk = blkStart.blk

\* C5 witness: set_mute(true) was stored after the callback's loads, and
\* the block still ended with a non-zero sample.
C5_Witness ==
    /\ epc = "publish"
    /\ Len(data) >= 2
    /\ nwrites > blkStart.nwrites
    /\ params.mute = 1
    /\ ~blk.mute
    /\ data[Len(data)] # Fin(0)

\* Every value the callback has loaded so far is the field's initial value
\* or a value some store put in that field.
LoadedWereStored ==
    \A i \in 1..ldx :
        \E raw \in stored[Fields[i]] : blk[Fields[i]] = Conv(Fields[i], raw)

\* A callback that has done its loads holds, for every field, the value
\* the field holds now.
LoadedAreCurrent ==
    ldx = Len(Fields) => \A f \in FieldNames : blk[f] = Conv(f, params[f])

\* C6: every value a callback has loaded for a field is the field's
\* initial value or a value some store put there (never a torn or invented
\* value); and once the stores to the fields have ended (each last store
\* is followed by no later one), from some callback on every callback
\* loads exactly the values last stored.
C6_ReadsStoredValues == [](LoadedWereStored) /\ <>[](LoadedAreCurrent)

\* C6 witness: a callback that started after set_mute(true) has loaded
\* mute = true.
C6_Witness ==
    /\ ldx = Len(Fields)
    /\ params.mute = 1
    /\ blk.mute
    /\ nwrites >= 1

\* The samples this callback has written, as they sit in the accumulator.
AccumOfBlock ==
    IF Len(scope_accum) >= Len(data)
    THEN SubSeq(scope_accum, Len(scope_accum) - Len(data) + 1, Len(scope_accum))
    ELSE scope_accum

\* C7 (as claimed): in a callback whose loads found mute = true, every
\* sample written to the device and appended to the accumulator is 0.
C7_MutedBlockIsSilent ==
    (epc \in {"frame", "publish"} /\ blk.mute) =>
        /\ \A k \in 1..Len(data) : data[k] = Fin(0)
        /\ \A k \in 1..Len(AccumOfBlock) : AccumOfBlock[k] = Fin(0)

\* a sample in [-1, 1]
InUnitRange(x) == IsFin(x) /\ -ONE <= x.v /\ x.v <= ONE

\* C8 (as claimed): every sample written to the device and appended to the
\* accumulator lies in [-1, 1], whatever the parameter store holds.
C8_SamplesInUnitRange ==
    /\ \A k \in 1..Len(data) : InUnitRange(data[k])
    /\ \A k \in 1..Len(scope_accum) : InUnitRange(scope_accum[k])

\* x is in [0, 1)
InUnitInterval(x) == IsFin(x) /\ 0 <= x.v /\ x.v < ONE

\* The per-frame increment freq / sample_rate is in [0, 1)
IncrementInRange(freq) == InUnitInterval(FDiv(freq, Fin(SampleRate * ONE)))

\* The step is one iteration of the frame loop.
IsFrame == epc = "frame" /\ Len(data') = Len(data) + 1

\* C28: the three phases start in [0, 1), and a frame whose three
\* increments are in [0, 1) takes phases in [0, 1) to phases in [0, 1):
\* so they stay there for as long as the increments do, over any number
\* of blocks and whatever the parameter store is given.
C28_PhasesStayInUnitInterval ==
    /\ InUnitInterval(phase1) /\ InUnitInterval(phase2) /\ InUnitInterval(lfo_phase)
    /\ [][(/\ IsFrame
           /\ InUnitInterval(phase1) /\ InUnitInterval(phase2)
           /\ InUnitInterval(lfo_phase)
           /\ IncrementInRange(blk.freq1) /\ IncrementInRange(blk.freq2)
           /\ IncrementInRange(lfo_rate))
          => (/\ InUnitInterval(phase1') /\ InUnitInterval(phase2')
              /\ InUnitInterval(lfo_phase'))]_vars

\* C28 witness: after two frames with the increments 1/4, 1/2 and 1/2 the
\* second oscillator and the LFO have wrapped to 0.
C28_Witness ==
    /\ data # <<>>
    /\ IncrementInRange(blk.freq1) /\ IncrementInRange(blk.freq2)
    /\ IncrementInRange(lfo_rate)
    /\ phase1 = Fin(ONE \div 2)
    /\ phase2 = Fin(0)
    /\ lfo_phase = Fin(0)

---------------------------------------------------------------------------
(* Claims about the LFO drift, checked under SpecLfo.                      *)

\* C9 (as claimed): starting inside [1.0, lfo_range], with a constant
\* lfo_speed > 0 and lfo_range >= 1, lfo_rate is inside [1.0, lfo_range]
\* after any number of drift updates.
C9_RateWithinRange ==
    /\ FGe(lfo_rate, Fin(ONE))
    /\ ~FGt(lfo_rate, blk.lfo_range)

\* C27 (as claimed): with a positive lfo_speed and an lfo_range of at
\* least 1, lfo_rate is above 0 after any number of drift updates.
C27_RateStaysPositive ==
    FGt(lfo_rate, Fin(0))

---------------------------------------------------------------------------
(* Claims about the trigger search, checked under SpecTrig.                *)

\* The indices of the search window [display_width/2, len - display_width/2)
Window ==
    {i \in 0..(Len(raw_buffer) - 1) :
        /\ i >= DISPLAY_WIDTH \div 2
        /\ i < Len(raw_buffer) - DISPLAY_WIDTH \div 2}

\* i is in the window, raw_buffer[i] > threshold, and a sample before it
\* inside the window is < -threshold.
GatedRising(i) ==
    /\ i \in Window
    /\ FGt(raw_buffer[i + 1], trigger_threshold)
    /\ \E j \in Window : j < i /\ FLt(raw_buffer[j + 1], FNeg(trigger_threshold))

\* C10: in rising-edge mode, when the window holds an index whose sample
\* is above the threshold and that is preceded inside the window by a
\* sample below minus the threshold, find_trigger_point returns the
\* smallest such index; samples within the threshold neither arm nor fire,
\* and neither do samples outside the window.
C10_FirstGatedCrossing ==
    (trigger_pos.valid /\ \E i \in Window : GatedRising(i)) =>
        /\ GatedRising(trigger_pos.pos)
        /\ \A i \in Window : GatedRising(i) => trigger_pos.pos <= i

\* C10 witness: a sample above the threshold before the window, then
\* inside the window an arming sample, a sample at the threshold and the
\* crossing, which is the index returned.
C10_Witness ==
    /\ trigger_pos.valid
    /\ Len(raw_buffer) = MaxLen
    /\ trigger_threshold = Fin(1)
    /\ FGt(raw_buffer[1], trigger_threshold)
    /\ raw_buffer[DISPLAY_WIDTH \div 2 + 1] = Fin(-2)
    /\ raw_buffer[DISPLAY_WIDTH \div 2 + 2] \in {Fin(1), Fin(-1)}
    /\ raw_buffer[DISPLAY_WIDTH \div 2 + 3] = Fin(2)
    /\ trigger_pos.pos = DISPLAY_WIDTH \div 2 + 2

\* C11 (as claimed): when the window holds no gated crossing, the index
\* returned is the midpoint of the samples raw_buffer holds: the middle
\* index, either of the two middle indices of a buffer of even length.
C11_FallbackIsMidpoint ==
    (/\ trigger_pos.valid
     /\ Len(raw_buffer) > 0
     /\ ~\E i \in Window : GatedRising(i)) =>
        trigger_pos.pos \in {(Len(raw_buffer) - 1) \div 2, Len(raw_buffer) \div 2}

---------------------------------------------------------------------------
(* Claims about the widget's ingest, checked under SpecScope.              *)

\* C12: after an ingest whose clipped display span equals display_width,
\* every display slot holds the sample at the same distance from
\* display_start: display_points[i] = raw_buffer[display_start + i] for
\* every i in 0..display_width, none interpolated, none skipped.
C12_OneToOne ==
    (last_ingest.updated /\ last_ingest.span = display_width) =>
        \A i \in 0..(display_width - 1) :
            display_points[i + 1] = raw_buffer[last_ingest.display_start + i + 1]

\* C12 witness: an ingest found a crossing away from the start of a buffer
\* longer than the display, and the span around it is display_width.
C12_Witness ==
    /\ last_ingest.updated
    /\ last_ingest.span = display_width
    /\ display_width = 2 * DISPLAY_WIDTH
    /\ last_ingest.display_start > 0
    /\ Len(raw_buffer) > last_ingest.display_end

\* The display holds the samples of raw_buffer in order after `left` zeros
\* and before `right` zeros.
PaddedDisplay(left, right) ==
    display_points = Zeros(left) \o raw_buffer \o Zeros(right)

\* C13 (amended): after an ingest that leaves fewer than display_width
\* samples in raw_buffer, the display holds all of them contiguously and in
\* order between floor((display_width - len) / 2) zeros on the left and the
\* remaining zeros on the right, one more than on the left when
\* display_width - len is odd: with len = display_width - 1 there is no
\* zero on the left.
C13_CentredWithPadding ==
    (last_ingest.updated /\ Len(raw_buffer) < display_width) =>
        PaddedDisplay((display_width - Len(raw_buffer)) \div 2,
                      display_width - Len(raw_buffer)
                        - (display_width - Len(raw_buffer)) \div 2)

\* C13 witness: three samples in a display of four slots: the samples, then
\* one zero.
C13_Witness ==
    /\ last_ingest.updated
    /\ display_width = 2 * DISPLAY_WIDTH
    /\ Len(raw_buffer) = display_width - 1
    /\ display_points[1] = raw_buffer[1]
    /\ display_points[display_width] = Fin(0)

\* C13 (as claimed): there are zero-valued slots on both sides of the
\* samples.
C13_PaddingOnBothSides ==
    (last_ingest.updated /\ Len(raw_buffer) < display_width) =>
        \E left \in 1..display_width, right \in 1..display_width :
            PaddedDisplay(left, right)

\* C14 (as claimed): once the widget holds a source, no sample of
\* raw_buffer was received while it held a source with another id: a
\* replacement of the source empties raw_buffer.
C14_NoStaleSamples ==
    source # 0 =>
        \A k \in 1..Len(raw_from) : raw_from[k] \in {0, source}

\* C15: after a rebuild in which the view carries a source, the widget
\* holds the source with that id and the view state is that id; and the
\* rebuild called set_source exactly when that id differed from the view
\* state it found, whatever builds and rebuilds (with or without a source)
\* came before.
C15_RebuildTracksSource ==
    (last_rebuild.valid /\ last_rebuild.view # 0) =>
        /\ source = last_rebuild.view
        /\ view_state = last_rebuild.view
        /\ last_rebuild.set_source <=> (last_rebuild.view # last_rebuild.prev_state)

\* C15 witness: the widget ingested samples while it held source 1, the
\* view then passed through a rebuild without a source, and the last
\* rebuild carried source 1 again and called set_source.
C15_Witness ==
    /\ last_rebuild.valid
    /\ last_rebuild.view = 1
    /\ last_rebuild.prev_state = 0
    /\ last_rebuild.set_source
    /\ anim_requested
    /\ raw_from # <<>>
    /\ \A k \in 1..Len(raw_from) : raw_from[k] = 1

\* The gated crossing the trigger search finds in raw_buffer, -1 when the
\* search falls back.
Crossing ==
    LET half == display_width \div 2
        search_end == SatSub(Len(raw_buffer), half)
    IN IF half >= search_end \/ search_end < 2 THEN -1
       ELSE ScanRising(raw_buffer, trigger_threshold, half, search_end, FALSE, -1)

\* C22: when the ingest's trigger search returned a gated crossing at p,
\* the display slot display_width / 2 holds raw_buffer[p], the slots
\* before it hold the display_width / 2 samples that precede p and the
\* slots after it the samples that follow p, in order.
C22_TriggerIsCentred ==
    (last_ingest.updated /\ Crossing >= 0) =>
        /\ trigger_pos.pos = Crossing
        /\ display_points[display_width \div 2 + 1] = raw_buffer[Crossing + 1]
        /\ \A i \in 0..(display_width - 1) :
              display_points[i + 1] =
                  raw_buffer[Crossing - display_width \div 2 + i + 1]

\* C22 witness: a crossing later than the fallback index, in the wider
\* display.
C22_Witness ==
    /\ last_ingest.updated
    /\ display_width = 2 * DISPLAY_WIDTH
    /\ Crossing > display_width \div 2
    /\ trigger_pos.pos = Crossing

\* The step is an ingest_buffer call; with a buffer that is not empty.
IsIngest == ningests' = ningests + 1
IsIngestOfSamples == IsIngest /\ nsamples' > nsamples

\* What the ingest appended to: raw_buffer and the buffer handed in.
Extended == raw_buffer \o NextBuffer(nsamples' - nsamples)

\* C29: after every ingest raw_buffer has at most 4 * display_width
\* samples and is the most recent min(4 * display_width, total) samples
\* of its previous contents followed by the ingested buffer, in order.
C29_KeepsNewestSamples ==
    [][IsIngestOfSamples =>
         /\ Len(raw_buffer') <= 4 * display_width
         /\ Len(raw_buffer') = Min(4 * display_width, Len(Extended))
         /\ \A i \in 0..(Len(raw_buffer') - 1) :
               raw_buffer'[Len(raw_buffer') - i] = Extended[Len(Extended) - i]]_vars

\* C29 witness: the widget was handed more than 4 * display_width samples
\* and holds the last 4 * display_width of them.
C29_Witness ==
    /\ last_ingest.updated
    /\ nsamples > 4 * display_width
    /\ Len(raw_buffer) = 4 * display_width
    /\ raw_buffer[1] = Wave(nsamples - 4 * display_width + 1)

\* C30: an ingest of a buffer that is not empty adds exactly 1 to
\* generation; an ingest of an empty buffer reports no update and leaves
\* generation, raw_buffer and display_points as they were; and no other
\* operation on the widget (set_source, a rebuild of its view) changes
\* generation.  A new widget from View::build starts again from 0.
C30_GenerationCountsIngests ==
    [][IF \E v \in ViewSources : Build(v) THEN generation' = 0
       ELSE IF IsIngestOfSamples THEN generation' = generation + 1
       ELSE /\ generation' = generation
            /\ IsIngest => /\ ~last_ingest'.updated
                           /\ raw_buffer' = raw_buffer
                           /\ display_points' = display_points]_vars

\* C30 witness: two ingests of samples, then an ingest of an empty buffer.
C30_Witness ==
    /\ ningests = 3
    /\ generation = 2
    /\ ~last_ingest.updated
    /\ raw_buffer # <<>>

---------------------------------------------------------------------------
(* Claims about the ScopeSource ids, checked under SpecIds.                *)

\* C16: two ScopeSource values made by separate calls of ScopeSource::new,
\* on the same thread or on threads that race, have different ids; a
\* clone has the id of its original and the same underlying channel; so
\* two values have the same id exactly when they poll the same channel.
C16_IdsAreUnique ==
    /\ \A h1, h2 \in 1..Len(sources) :
          (sources[h1].id = sources[h2].id) <=> (sources[h1].chan = sources[h2].chan)
    /\ \A h \in 1..Len(sources) :
          sources[h].clone_of # 0 =>
             /\ sources[h].id = sources[sources[h].clone_of].id
             /\ sources[h].chan = sources[sources[h].clone_of].chan
    /\ \A t1, t2 \in Threads :
          (t1 # t2 /\ tnew[t1].pc = "made" /\ tnew[t2].pc = "made") =>
             tnew[t1].id # tnew[t2].id

\* C16 witness: two threads were inside ScopeSource::new at the same time,
\* the one that entered second took its id first, and a clone of a clone
\* exists.
C16_Witness ==
    /\ Len(sources) >= 4
    /\ \E h1, h2 \in 1..Len(sources) :
          /\ sources[h1].clone_of = 0
          /\ sources[h2].clone_of = 0
          /\ sources[h1].chan < sources[h2].chan
          /\ sources[h1].id > sources[h2].id
    /\ \E h \in 1..Len(sources) :
          sources[h].clone_of # 0 /\ sources[sources[h].clone_of].clone_of # 0

---------------------------------------------------------------------------
(* Claims about DspHandle and DspEngine::start, checked under SpecHandle.  *)

\* C18: stop leaves is_running() false and touches neither the params nor
\* the scope source id; a stop of a handle that is not running changes
\* nothing, so one stop and any number of stops leave the same handle.
C18_StopIsIdempotent ==
    \A k \in 1..Len(stopLog) :
        LET b == stopLog[k].before
            a == stopLog[k].after
        IN /\ ~is_running(a)
           /\ a.params = b.params
           /\ a.scope_source = b.scope_source
           /\ (~is_running(b)) => a = b
           /\ stop(a) = a
           /\ a.stream \notin live

\* C18 witness: a running handle was stopped and then stopped again.
C18_Witness ==
    /\ Len(stopLog) >= 2
    /\ is_running(stopLog[1].before)
    /\ stopLog[2].before = stopLog[1].after

\* The start calls that have returned an Err.
Failed == {k \in 1..Len(results) : ~results[k].ok}

\* C19 (amended): every start call that fails returns one of the Err
\* values; once it has returned, its stream is gone and no audio callback
\* of it runs any more; it has changed neither the parameter store nor the
\* caller's handle; and while no start call is in progress every call begun
\* has returned exactly one result.
C19_FailureLeavesNoTrace ==
    /\ \A k \in Failed :
          LET r == results[k]
          IN /\ r.err \in StartErrors
             /\ r.n \notin live
             /\ cbCount[r.n] = r.cbs
             /\ r.params1 = r.params0
             /\ r.dsp1 = r.dsp0
    /\ att.pc = "idle" => Len(results) = nstarts
    /\ \A k \in 1..Len(results) : results[k].n = k

\* C19 witness: a start call failed at play after its stream had run a
\* callback, and a later start call with another selection succeeded.
C19_Witness ==
    \E k \in Failed : \E j \in (k + 1)..Len(results) :
        /\ results[k].err = "play"
        /\ results[k].cbs > 0
        /\ results[j].ok
        /\ is_running(dsp)

\* C19 (as claimed): for a failed start call no audio callback ever runs.
C19_NoCallbackOfFailedStart ==
    \A k \in Failed : cbCount[results[k].n] = 0

---------------------------------------------------------------------------
(* Claims about the atomics of the parameter store, checked under SpecAtom. *)

\* C25: a load with no store since the last store returns the f32 that
\* was stored, bit for bit, for every bit pattern (NaN payloads, signalling
\* NaNs, negative zero and subnormals included); and muted() and
\* lfo_enabled() return the boolean last set.
C25_StoreLoadRoundTrip ==
    /\ aloaded.valid =>
          /\ to_bits(aloaded.v) = to_bits(astored)
          /\ aloaded.v = astored
          /\ abits = to_bits(astored)
    /\ bgot.valid => bgot.b = bset[bgot.field]

\* C25 witness: a signalling NaN with its sign bit set came back from the
\* load as it was stored.
C25_Witness ==
    /\ aloaded.valid
    /\ IsSignalling(astored)
    /\ astored.sign = 1
    /\ aloaded.v = astored

---------------------------------------------------------------------------
(* Claims about the PushButton widget, checked under SpecButton.           *)

\* C23: an Up that finds the button with the pointer capture and hovered
\* flips `active` once and emits the new value as the one action; an Up
\* without the capture or not hovered, and every other pointer event,
\* leaves `active` as it was and emits nothing.
C23_ClickFlipsOnce ==
    pb_last.ev # "none" =>
        IF pb_last.ev = "Up" /\ pb_last.captured0 /\ pb_last.hovered0
        THEN /\ pb_last.active1 = ~pb_last.active0
             /\ pb_last.emitted = <<pb_last.active1>>
        ELSE /\ pb_last.active1 = pb_last.active0
             /\ pb_last.emitted = <<>>

\* C23 witness: the second click, on a button that was on, switched it
\* off and emitted FALSE.
C23_Witness ==
    /\ pb_clicks = 2
    /\ pb_last.ev = "Up"
    /\ pb_last.captured0 /\ pb_last.hovered0
    /\ pb_last.active0
    /\ pb_last.emitted = <<FALSE>>
    /\ ~pb_active

---------------------------------------------------------------------------
(* Claims about the Fader widget, checked under SpecFader.                 *)

---------------------------------------------------------------------------
\* C31: whatever the lengths of the buffers ingested (a single sample,
\* fewer than display_width), no ingest indexes raw_buffer or
\* display_points out of bounds or takes a usize below zero, and
\* display_points has display_width entries.
C31_IngestNeverPanics ==
    /\ ~last_ingest.panicked
    /\ Len(display_points) = display_width

\* A first ingest of a single sample has filled the display, and so has a
\* later ingest that left raw_buffer full.
C31_Witness ==
    /\ last_ingest.updated
    /\ \/ Len(raw_buffer) = 1
       \/ Len(raw_buffer) = display_width * 4 /\ ningests = MaxIngests

---------------------------------------------------------------------------
\* C32: with several clones of one ScopeSource polling, concurrently or in
\* turn, a published snapshot goes to at most one of them: the snapshot a
\* poll returns was returned by no earlier poll of any clone, and no two
\* clones hold the same snapshot as the result of their last polls.
PollReturnsSome(c) ==
    /\ cpc[c] # "idle"
    /\ cpc'[c] = "idle"
    /\ result'[c].some

C32_OneTakerPerSnapshot ==
    /\ [](\A c, d \in Clones :
             (c # d /\ result[c].some /\ result[d].some)
                 => result[c].samples # result[d].samples)
    /\ [][\A c \in Clones :
             PollReturnsSome(c) =>
                 \A k \in 1..Len(returns) : returns[k] # result'[c].samples]_vars

\* Each of the two clones has had a snapshot from a poll, and one of them
\* is in the middle of its next poll.
C32_Witness ==
    /\ \A c \in Clones : result[c].some
    /\ Len(returns) >= 2
    /\ \E c \in Clones : cpc[c] = "update"

---------------------------------------------------------------------------
\* C33: once a toggle has been handled and the view rebuilt, the widget's
\* `active` is the `active` the application passes to push_button, also
\* when on_toggle did not adopt the value the widget emitted.
C33_WidgetShowsAppState ==
    pb_pending = <<>> => pb_active = pb_view

---------------------------------------------------------------------------
\* C34: after every rebuild of a param_selector view the widget's
\* `selected` is the view's `selected` clamped to the view's label count,
\* also when labels and index change in one rebuild.
C34_RebuildSelectsViewIndex ==
    ps_last = "rebuild" =>
        ps_selected = Min(ps_view.selected, SatSub(Len(ps_view.labels), 1))

---------------------------------------------------------------------------
\* C35: after every rebuild of a knob view the widget's value is the
\* view's value clamped to the view's [min, max], also when value and
\* range change in one rebuild.
C35_RebuildSetsViewValue ==
    kn_last.ev = "rebuild" =>
        kn_value = ClampTo(kn_view.value, kn_view.min, kn_view.max)

\* C36: for a Knob constructed with min <= max, min <= value <= max after
\* every sequence of set_value, set_range (min <= max), drags and
\* double-clicks.
C36_ValueWithinRange ==
    kn_min <= kn_value /\ kn_value <= kn_max

---------------------------------------------------------------------------
\* C37: in the demo, after every UI callback (start and stop from the
\* button, device selections, in any order, each start succeeding or
\* failing) audio_started is true exactly when the DspHandle the demo
\* holds has a stream.
C37_StartedIffRunning ==
    audio_started <=> is_running(dsp)

\* A device selection while the audio ran has restarted the stream, or
\* has failed to and left the demo stopped.
C37_Witness ==
    /\ demo_last.cb = "select"
    /\ demo_last.started
    /\ ~demo_last.ok
    /\ ~audio_started
    /\ nstarts = MaxStarts

---------------------------------------------------------------------------
---------------------------------------------------------------------------
---------------------------------------------------------------------------
\* C40: after a rebuild in which the scope view carries no source the
\* widget holds no source (and so polls none and asks for no frames).
C40_NoneDropsSource ==
    (last_rebuild.valid /\ last_rebuild.view = 0) => source = 0

=============================================================================
